---- MODULE Spec2Model ----
(***************************************************************************)
(* A model of podaac/concise: the NetCDF granule merger.                   *)
(*                                                                         *)
(* Text (paths, names) is a sequence of tokens: "/" is the path separator  *)
(* and every other token is a run of characters without "/".  So the path  *)
(* "/a/w" is <<"/", "a", "/", "w">> and the name "w" is <<"w">>.           *)
(* Python's None is the empty sequence and a present value v is <<v>>.     *)
(* Indices are 0-based as in the source.                                   *)
(***************************************************************************)
EXTENDS Integers, Sequences, FiniteSets, TLC

\* ------------------------------------------------------------------ bounds
\* longest list of input files handed to merge_netcdf_files
MaxInputs == 2
\* largest process_count handed to merge_netcdf_files
MaxProcessCount == 3
\* largest value os.cpu_count() returns
MaxCpu == 2

\* ------------------------------------------------------------ generic text
None == <<>>
Some(v) == <<v>>
IsNone(o) == o = <<>>
Val(o) == o[1]

Range(s) == {s[k] : k \in DOMAIN s}

RECURSIVE Prod(_)
Prod(s) == IF s = <<>> THEN 1 ELSE Head(s) * Prod(Tail(s))

\* positions of the separator in a text
SlashAt(path) == {k \in DOMAIN path : path[k] = "/"}
Max(S) == CHOOSE m \in S : \A n \in S : n <= m
Min(S) == CHOOSE m \in S : \A n \in S : m <= n

\* str.split('/', 1): the split at the first separator
rsplit1_at_first(path) ==
  IF SlashAt(path) = {} THEN <<path>>
  ELSE LET k == Min(SlashAt(path))
       IN  <<SubSeq(path, 1, k - 1), SubSeq(path, k + 1, Len(path))>>

\* str.rsplit('/', 1): one component when there is no separator
rsplit1(path) ==
  IF SlashAt(path) = {} THEN <<path>>
  ELSE LET k == Max(SlashAt(path))
       IN  <<SubSeq(path, 1, k - 1), SubSeq(path, k + 1, Len(path))>>

\* str.split('/')
RECURSIVE split(_)
split(path) ==
  IF SlashAt(path) = {} THEN <<path>>
  ELSE LET k == Min(SlashAt(path))
       IN  <<SubSeq(path, 1, k - 1)>> \o split(SubSeq(path, k + 1, Len(path)))

\* '/'.join(parts)
RECURSIVE join(_)
join(parts) ==
  IF parts = <<>> THEN <<>>
  ELSE IF Len(parts) = 1 THEN parts[1]
  ELSE parts[1] \o <<"/">> \o join(Tail(parts))

\* os.path.basename: the text after the last separator
basename(path) ==
  IF SlashAt(path) = {} THEN path
  ELSE SubSeq(path, Max(SlashAt(path)) + 1, Len(path))

\* pathlib.PurePath.name: the last component of a (normalised) path
PathName(path) ==
  LET parts == SelectSeq(split(path), LAMBDA c : c # <<>>)
  IN  IF parts = <<>> THEN <<>> ELSE parts[Len(parts)]

\* ------------------------------------------------------------ dictionaries
\* A Python dict is a sequence of <<key, value>> pairs in insertion order.
Keys(d) == [k \in DOMAIN d |-> d[k][1]]
KeySet(d) == {d[k][1] : k \in DOMAIN d}
Has(d, key) == key \in KeySet(d)
Get(d, key) == (d[CHOOSE k \in DOMAIN d : d[k][1] = key])[2]
\* d[key] = value: in place when the key is there, appended otherwise
Put(d, key, value) ==
  IF Has(d, key)
  THEN [k \in DOMAIN d |-> IF d[k][1] = key THEN <<key, value>> ELSE d[k]]
  ELSE Append(d, <<key, value>>)

\* ------------------------------------------------------------------ arrays
\* An ndarray: its shape, its dtype and its cells, indexed by 0-based tuples.
RECURSIVE Indices(_)
Indices(shape) ==
  IF shape = <<>> THEN {<<>>}
  ELSE {<<k>> \o rest : k \in 0 .. (Head(shape) - 1), rest \in Indices(Tail(shape))}

\* bytes per element of a dtype (numpy itemsize; object arrays hold pointers)
ItemSize(dtype) ==
  CASE dtype = "i2" -> 2
    [] dtype = "i4" -> 4
    [] dtype = "O"  -> 8

nbytes(arr) == ItemSize(arr.dtype) * Prod(arr.shape)

\* ------------------------------------------------------ granules on disk
\* A dataset is the sequence of its groups in creation order (root first).
\* A group has a path, a dict of dimensions (name -> size), its variables in
\* creation order and a dict of attributes.  A variable has a name, the names
\* of its dimensions, a datatype, a dict of attributes and its cells.
\* An attribute value carries its type: [type |-> "i4", v |-> -1].
RECURSIVE Lin(_)
Lin(idx) == IF idx = <<>> THEN 0 ELSE 10 * Lin(SubSeq(idx, 1, Len(idx) - 1)) + idx[Len(idx)]

\* cells of a stored variable: every cell holds its own value
Payload(base, shape) == [idx \in Indices(shape) |-> base + Lin(idx)]

AttrVal(type, v) == [type |-> type, v |-> v]
\* one entry of a dataset's attribute dict
Attr(name, type, v) == <<name, AttrVal(type, v)>>
NcVar(name, dims, dtype, attrs, data) ==
  [name |-> name, dimensions |-> dims, datatype |-> dtype, attrs |-> attrs, data |-> data]
NcGroup(path, dims, vars, attrs) ==
  [path |-> path, dimensions |-> dims, variables |-> vars, attrs |-> attrs]

Root == <<"/">>
GrpA == <<"/", "a">>
GrpB == <<"/", "b">>
GrpAC == <<"/", "a", "/", "c">>
FillAttr(n) == << << <<"_FillValue">>, AttrVal("i4", n)>> >>

\* v(x, y) with a fill value, u(x) and the scalar s without one; u has units
VarV(dtype, base, nx, ny) ==
  NcVar(<<"v">>, << <<"x">>, <<"y">> >>, dtype,
        << << <<"_FillValue">>, AttrVal(dtype, -1)>> >>, Payload(base, <<nx, ny>>))
VarU(base, nx) ==
  NcVar(<<"u">>, << <<"x">> >>, "i4", << Attr(<<"units">>, "str", "m") >>, Payload(base, <<nx>>))
VarS(base) == NcVar(<<"s">>, <<>>, "i4", <<>>, Payload(base, <<>>))
\* w(z) on a dimension of its own group, q(x) on a dimension of the root
VarW(base, nz) == NcVar(<<"w">>, << <<"z">> >>, "i4", FillAttr(-2), Payload(base, <<nz>>))
VarQ(base, nx) == NcVar(<<"q">>, << <<"x">> >>, "i4", FillAttr(-3), Payload(base, <<nx>>))
VarT(base, nk) == NcVar(<<"t">>, << <<"k">> >>, "i4", <<>>, Payload(base, <<nk>>))

DimsXY(nx, ny) == << << <<"x">>, nx>>, << <<"y">>, ny>> >>
Dim1(name, n) == << << <<name>>, n>> >>

\* the history_json attribute of a granule: a JSON list, one entry per program
History(programs) ==
  Attr(<<"history_json">>, "str",
       [json |-> [k \in DOMAIN programs |->
                    [date_time |-> "then", derived_from |-> <<>>, program |-> programs[k],
                     parameters |-> <<>>]]])

\* flat granules: same schema, different sizes.  Their root attributes:
\* title agrees; granule differs in value, level in type only, range in the
\* dtype of its array only; flag is a numpy zero; histories differ
DsA1 == << NcGroup(Root, DimsXY(1, 2), <<VarV("i4", 100, 1, 2), VarU(150, 1), VarS(170)>>,
                   << Attr(<<"title">>, "str", "t"), Attr(<<"granule">>, "i4", 1),
                      Attr(<<"level">>, "i4", 1), Attr(<<"range">>, "i4[]", <<0, 9>>),
                      Attr(<<"flag">>, "i1", 0), History(<<"l2ss">>) >>) >>
DsA2 == << NcGroup(Root, DimsXY(2, 1), <<VarV("i4", 200, 2, 1), VarU(250, 2), VarS(270)>>,
                   << Attr(<<"title">>, "str", "t"), Attr(<<"granule">>, "i4", 2),
                      Attr(<<"level">>, "f4", 1), Attr(<<"range">>, "f4[]", <<0, 9>>),
                      Attr(<<"flag">>, "i1", 0), History(<<"subsetter", "concise">>) >>) >>
\* v is missing (it has a fill value); the attribute c/d differs from d1's
DsA3 == << NcGroup(Root, DimsXY(1, 1), <<VarU(350, 1), VarS(370)>>,
                   << Attr(<<"title">>, "str", "t"), Attr(<<"c", "/", "d">>, "i4", 1) >>) >>
\* u is missing (it has no fill value)
DsA4 == << NcGroup(Root, DimsXY(1, 1), <<VarV("i4", 400, 1, 1), VarS(470)>>, <<>>) >>
\* v has another datatype
DsD1 == << NcGroup(Root, DimsXY(1, 2), <<VarV("i2", 500, 1, 2), VarU(550, 1), VarS(570)>>,
                   << Attr(<<"c", "/", "d">>, "i4", 2) >>) >>
\* a nested group
DsB1 == << NcGroup(Root, Dim1("x", 1), <<>>, <<>>),
           NcGroup(GrpA, Dim1("z", 2), <<VarW(600, 2), VarQ(650, 1)>>, <<>>) >>
\* q is missing: its dimension lives in the root
DsB2 == << NcGroup(Root, Dim1("x", 2), <<>>, <<>>),
           NcGroup(GrpA, Dim1("z", 1), <<VarW(700, 1)>>, <<>>) >>
\* w is missing: its dimension lives in its own group
DsB3 == << NcGroup(Root, Dim1("x", 1), <<>>, <<>>),
           NcGroup(GrpA, Dim1("z", 1), <<VarQ(850, 1)>>, <<>>) >>
\* w lies in /a on a dimension z that only the root defines
DsB4 == << NcGroup(Root, << << <<"x">>, 1>>, << <<"z">>, 2>> >>, <<>>, <<>>),
           NcGroup(GrpA, <<>>, <<VarW(1200, 2)>>, <<>>) >>
\* every variable has size 0
DsE1 == << NcGroup(Root, DimsXY(0, 2), <<VarV("i4", 900, 0, 2), VarU(950, 0)>>, <<>>) >>
\* the first child group holds only a size-0 variable, its sibling holds data
DsE2 == << NcGroup(Root, <<>>, <<>>, <<>>),
           NcGroup(GrpA, Dim1("z", 0), <<VarW(1000, 0)>>, <<>>),
           NcGroup(GrpB, Dim1("k", 2), <<VarT(1050, 2)>>, <<>>) >>
\* size-0 variables in the root and in the first child, data two levels down
DsE3 == << NcGroup(Root, Dim1("x", 0), <<VarU(1100, 0)>>, <<>>),
           NcGroup(GrpA, <<>>, <<>>, <<>>),
           NcGroup(GrpAC, Dim1("k", 1), <<VarT(1150, 1)>>, <<>>) >>

File(leaf) == <<"/", "data", "/", leaf>>

\* the files the caller can name, with their content
Disk ==
  << <<File("a1.nc"), DsA1>>, <<File("a2.nc"), DsA2>>, <<File("a3.nc"), DsA3>>,
     <<File("a4.nc"), DsA4>>, <<File("d1.nc"), DsD1>>, <<File("b1.nc"), DsB1>>,
     <<File("b2.nc"), DsB2>>, <<File("b3.nc"), DsB3>>, <<File("e1.nc"), DsE1>>,
     <<File("e2.nc"), DsE2>>, <<File("e3.nc"), DsE3>>, <<File("b4.nc"), DsB4>> >>

\* nc.Dataset(file, 'r')
nc_Dataset(file) == Get(Disk, file)

\* ------------------------------------------------- reading a netCDF dataset
HasGroup(ds, path) == \E k \in DOMAIN ds : ds[k].path = path
GroupAt(ds, path) == ds[CHOOSE k \in DOMAIN ds : ds[k].path = path]

\* the path of the group that holds the group at a non-root path
ParentPath(path) ==
  LET head == rsplit1(path)[1] IN IF head = <<>> THEN Root ELSE head

\* group.groups.values(): the child groups, in creation order
ChildGroups(ds, path) ==
  SelectSeq(ds, LAMBDA g : g.path # Root /\ ParentPath(g.path) = path)

\* group.variables.get(name)
HasVariable(group, name) == \E k \in DOMAIN group.variables : group.variables[k].name = name
VariableOf(group, name) ==
  group.variables[CHOOSE k \in DOMAIN group.variables : group.variables[k].name = name]

\* the size of the dimension a name denotes inside a group: the nearest
\* enclosing group that defines it (netCDF dimension scoping)
RECURSIVE DimSize(_, _, _)
DimSize(ds, path, name) ==
  LET dims == GroupAt(ds, path).dimensions
  IN  IF Has(dims, name) THEN Get(dims, name)
      ELSE DimSize(ds, ParentPath(path), name)

\* var.shape, var.ndim, var.size
VarShape(ds, path, var) == [j \in DOMAIN var.dimensions |-> DimSize(ds, path, var.dimensions[j])]
VarSize(ds, path, var) == Prod(VarShape(ds, path, var))

\* var[:] as an ndarray
VarArray(ds, path, var) ==
  [shape |-> VarShape(ds, path, var), dtype |-> var.datatype, cells |-> var.data]

\* --------------------------------------------------------------- path_utils
\* get_group_path(group, resource), with group.path given
get_group_path(group_path, resource) ==
  IF group_path = Root THEN <<"/">> \o resource
  ELSE group_path \o <<"/">> \o resource

\* resolve_group(dataset, path): the group's path and the last component.
\* found is FALSE when dataset[components[0]] raises IndexError.
resolve_group(ds, path) ==
  LET components == rsplit1(path)
      group == IF Len(components[1]) > 0 THEN components[1] ELSE Root
  IN  [found |-> HasGroup(ds, group), group |-> group, name |-> components[2]]

\* the loop of resolve_dim run from the root down: the shallowest match wins
RECURSIVE resolve_dim_loop_from_root(_, _, _, _)
resolve_dim_loop_from_root(dims, group_tree, i, dim_name) ==
  IF i = 0 THEN None
  ELSE LET path == join(SubSeq(group_tree, 1, i)) \o <<"/">> \o dim_name
           above == resolve_dim_loop_from_root(dims, group_tree, i - 1, dim_name)
       IN  IF ~IsNone(above) THEN above
           ELSE IF Has(dims, path) THEN Some(Get(dims, path))
           ELSE None

\* the loop of resolve_dim from i down to 1; None when no path key matches
RECURSIVE resolve_dim_loop(_, _, _, _)
resolve_dim_loop(dims, group_tree, i, dim_name) ==
  IF i = 0 THEN None
  ELSE LET path == join(SubSeq(group_tree, 1, i)) \o <<"/">> \o dim_name
       IN  IF Has(dims, path) THEN Some(Get(dims, path))
           ELSE resolve_dim_loop(dims, group_tree, i - 1, dim_name)

\* resolve_dim(dims, group_path, dim_name); None stands for KeyError
resolve_dim(dims, group_path, dim_name) ==
  LET group_tree == split(group_path)
      hit == resolve_dim_loop(dims, group_tree, Len(group_tree), dim_name)
  IN  IF ~IsNone(hit) THEN hit
      ELSE IF Has(dims, dim_name) THEN Some(Get(dims, dim_name))
      ELSE None

\* ------------------------------------------------------------ variable_info
HasAttr(obj, name) == Has(obj.attrs, name)

\* VariableInfo(var) with missing_value looked at before _FillValue
VariableInfo_missing_value_first(var, group_path) ==
  [name |-> var.name,
   dim_order |-> var.dimensions,
   datatype |-> var.datatype,
   group_path |-> group_path,
   fill_value |-> IF HasAttr(var, <<"missing_value">>) THEN Some(Get(var.attrs, <<"missing_value">>))
                  ELSE IF HasAttr(var, <<"_FillValue">>)
                       THEN Some(Get(var.attrs, <<"_FillValue">>))
                       ELSE None]

\* VariableInfo(var), with var.group().path given
VariableInfo(var, group_path) ==
  [name |-> var.name,
   dim_order |-> var.dimensions,
   datatype |-> var.datatype,
   group_path |-> group_path,
   fill_value |-> IF HasAttr(var, <<"_FillValue">>) THEN Some(Get(var.attrs, <<"_FillValue">>))
                  ELSE IF HasAttr(var, <<"missing_value">>)
                       THEN Some(Get(var.attrs, <<"missing_value">>))
                       ELSE None]

\* __setattr__ without the check of self.init
VariableInfo_setattr_unchecked(self, name, value) ==
  [raised |-> FALSE, self |-> Put(self, name, value)]

\* VariableInfo.__setattr__(self, name, value) on the object's __dict__;
\* raised stands for AttributeError('VariableInfo is immutable')
VariableInfo_setattr(self, name, value) ==
  IF Has(self, "init") /\ Get(self, "init")
  THEN [raised |-> TRUE, self |-> self]
  ELSE [raised |-> FALSE, self |-> Put(self, name, value)]

\* the assignments of __init__ from the k-th on, each through __setattr__;
\* None when one of them raises
RECURSIVE VariableInfo_assign(_, _, _)
VariableInfo_assign(self, assignments, k) ==
  IF k > Len(assignments) THEN Some(self)
  ELSE IF VariableInfo_setattr(self, assignments[k][1], assignments[k][2]).raised THEN None
  ELSE VariableInfo_assign(VariableInfo_setattr(self, assignments[k][1], assignments[k][2]).self,
                           assignments, k + 1)

\* VariableInfo.__init__(self, var): name, dim_order, datatype, group_path and
\* fill_value are assigned, `self.init = True` last
VariableInfo_init(var, group_path) ==
  VariableInfo_assign(<<>>,
    << <<"name", VariableInfo(var, group_path).name>>,
       <<"dim_order", VariableInfo(var, group_path).dim_order>>,
       <<"datatype", VariableInfo(var, group_path).datatype>>,
       <<"group_path", VariableInfo(var, group_path).group_path>>,
       <<"fill_value", VariableInfo(var, group_path).fill_value>>,
       <<"init", TRUE>> >>, 1)

\* the float that differs from itself, kept apart from every stored value
NaN == -32768

\* np.isnan of a fill value that is present
isnan(x) == x.v = NaN

\* the comparison of the fill values with `==` alone
fill_value_eq_without_array_equal(a, b) ==
  IF IsNone(a) \/ IsNone(b) THEN IsNone(a) /\ IsNone(b)
  ELSE ~isnan(Val(a)) /\ ~isnan(Val(b)) /\ Val(a).v = Val(b).v

\* self.fill_value == other.fill_value or np.array_equal(..., equal_nan=True):
\* numpy scalars compare by value and NaN differs from itself under `==`;
\* array_equal takes two NaN for equal.  None equals only None under `==`,
\* and array_equal does not return True for None against a value (np.isnan
\* has no loop for an object array: the comparison ends in TypeError), so
\* the two never compare equal.
fill_value_eq(a, b) ==
  IF IsNone(a) \/ IsNone(b) THEN IsNone(a) /\ IsNone(b)
  ELSE \/ ~isnan(Val(a)) /\ ~isnan(Val(b)) /\ Val(a).v = Val(b).v
       \/ /\ isnan(Val(a)) = isnan(Val(b))
          /\ isnan(Val(a)) \/ Val(a).v = Val(b).v

\* VariableInfo.__eq__
VariableInfo_eq(a, b) ==
  /\ a.dim_order = b.dim_order
  /\ a.datatype = b.datatype
  /\ a.name = b.name
  /\ fill_value_eq(a.fill_value, b.fill_value)
  /\ a.group_path = b.group_path

\* -------------------------------------------------------- emptiness filter
\* is_file_empty(parent_group)
RECURSIVE is_file_empty(_, _)
is_file_empty(ds, path) ==
  LET group == GroupAt(ds, path)
      children == ChildGroups(ds, path)
  IN  IF \E k \in DOMAIN group.variables : VarSize(ds, path, group.variables[k]) # 0
      THEN FALSE
      ELSE IF children # <<>> THEN is_file_empty(ds, children[1].path)
      ELSE TRUE

\* ------------------------------------------------------------ sorting text
\* the tokens of group paths in character order ('/' sorts before letters)
Alphabet == <<"/", "a", "b", "c">>
Rank(token) == CHOOSE k \in DOMAIN Alphabet : Alphabet[k] = token

\* s < t for two texts, as Python compares str
RECURSIVE TextLess(_, _)
TextLess(s, t) ==
  IF t = <<>> THEN FALSE
  ELSE IF s = <<>> THEN TRUE
  ELSE IF s[1] = t[1] THEN TextLess(Tail(s), Tail(t))
  ELSE Rank(s[1]) < Rank(t[1])

\* insert a text into a sorted list, after the texts that are not greater
RECURSIVE InsertSorted(_, _)
InsertSorted(sorted, t) ==
  IF sorted = <<>> THEN <<t>>
  ELSE IF TextLess(t, sorted[1]) THEN <<t>> \o sorted
  ELSE <<sorted[1]>> \o InsertSorted(Tail(sorted), t)

\* list.sort()
RECURSIVE sort(_)
sort(list) ==
  IF list = <<>> THEN <<>>
  ELSE InsertSorted(sort(SubSeq(list, 1, Len(list) - 1)), list[Len(list)])

\* ---------------------------------------------------- preprocess: visiting
\* The state a preprocessing pass accumulates.  raised is None, or the error
\* that aborted the pass.
EmptyAcc ==
  [group_list |-> <<>>, max_dims |-> <<>>, var_info |-> <<>>, var_metadata |-> <<>>,
   group_metadata |-> <<>>, history_json |-> <<>>, raised |-> None]

\* isinstance(attr, np.ndarray): getncattr gives an array for two values or more
IsArray(attr) == attr.type \in {"i4[]", "f4[]"}

\* attr_eq(attr_1, attr_2).  np.array_equal compares shapes and elements and
\* not dtypes, and an array never equals a scalar; scalars compare by type
\* and value
attr_eq(attr_1, attr_2) ==
  IF IsArray(attr_1) \/ IsArray(attr_2)
  THEN IsArray(attr_1) /\ IsArray(attr_2) /\ attr_1.v = attr_2.v
  ELSE attr_1.type = attr_2.type /\ attr_1.v = attr_2.v

\* the value that marks an attribute as inconsistent: Python's False
Inconsistent == AttrVal("bool", 0)

\* get_metadata: the attributes attrs[k..] folded into metadata
RECURSIVE get_metadata_from(_, _, _)
get_metadata_from(attrs, k, metadata) ==
  IF k > Len(attrs) THEN metadata
  ELSE LET attr_name == attrs[k][1]
           attr == attrs[k][2]
           next == IF ~Has(metadata, attr_name) THEN Put(metadata, attr_name, attr)
                   ELSE IF ~attr_eq(Get(metadata, attr_name), attr)
                        THEN Put(metadata, attr_name, Inconsistent)
                        ELSE metadata
       IN  get_metadata_from(attrs, k + 1, next)

\* get_metadata(group, metadata)
get_metadata(obj, metadata) == get_metadata_from(obj.attrs, 1, metadata)

\* get_max_dims without the comparison: the size seen last is stored
RECURSIVE get_max_dims_last_wins(_, _, _, _)
get_max_dims_last_wins(group_path, dims, k, max_dims) ==
  IF k > Len(dims) THEN max_dims
  ELSE get_max_dims_last_wins(group_path, dims, k + 1,
         Put(max_dims, get_group_path(group_path, dims[k][1]), dims[k][2]))

\* get_max_dims: the dimensions dims[k..] of a group folded into max_dims
RECURSIVE get_max_dims_from(_, _, _, _)
get_max_dims_from(group_path, dims, k, max_dims) ==
  IF k > Len(dims) THEN max_dims
  ELSE LET dim_path == get_group_path(group_path, dims[k][1])
           size == dims[k][2]
           next == IF ~Has(max_dims, dim_path) \/ Get(max_dims, dim_path) < size
                   THEN Put(max_dims, dim_path, size)
                   ELSE max_dims
       IN  get_max_dims_from(group_path, dims, k + 1, next)

\* get_max_dims(group, max_dims)
get_max_dims(group, max_dims) == get_max_dims_from(group.path, group.dimensions, 1, max_dims)

\* get_variable_data: the variables vars[k..] of a group folded into acc
RECURSIVE get_variable_data_from(_, _, _)
get_variable_data_from(group, k, acc) ==
  IF k > Len(group.variables) THEN acc
  ELSE LET var == group.variables[k]
           info == VariableInfo(var, group.path)
           var_path == get_group_path(group.path, var.name)
       IN  IF Has(acc.var_info, var_path) /\ ~VariableInfo_eq(Get(acc.var_info, var_path), info)
           THEN [acc EXCEPT !.raised = Some("RuntimeError: Inconsistent variable schemas")]
           ELSE LET var_info == IF Has(acc.var_info, var_path) THEN acc.var_info
                                ELSE Put(acc.var_info, var_path, info)
                    old == IF Has(acc.var_metadata, var_path)
                           THEN Get(acc.var_metadata, var_path) ELSE <<>>
                    var_metadata == Put(acc.var_metadata, var_path, get_metadata(var, old))
                IN  get_variable_data_from(group, k + 1,
                      [acc EXCEPT !.var_info = var_info, !.var_metadata = var_metadata])

\* get_variable_data(group, var_info, var_metadata)
get_variable_data(group, acc) == get_variable_data_from(group, 1, acc)

\* the head of process_groups: the group is listed, its dimensions and its
\* attributes are folded into the accumulated state
get_group_data(group, acc) ==
  [acc EXCEPT
     !.group_list = IF group.path \in Range(@) THEN @ ELSE Append(@, group.path),
     !.max_dims = get_max_dims(group, @),
     !.group_metadata = Put(@, group.path,
                            get_metadata(group, IF Has(@, group.path) THEN Get(@, group.path)
                                                ELSE <<>>))]

\* process_groups(parent_group, ...): the group, then its child groups in
\* order, depth first; groups[k..] are the child groups still to visit
RECURSIVE process_groups(_, _, _)
RECURSIVE process_children(_, _, _, _)
process_groups(ds, path, acc) ==
  process_children(ds, ChildGroups(ds, path), 1,
                   get_variable_data(GroupAt(ds, path), get_group_data(GroupAt(ds, path), acc)))

process_children(ds, groups, k, acc) ==
  IF k > Len(groups) \/ ~IsNone(acc.raised) THEN acc
  ELSE process_children(ds, groups, k + 1, process_groups(ds, groups[k].path, acc))

\* json.dumps / json.loads: a JSON text is kept apart from the value it encodes
json_dumps(value) == [json |-> value]
json_loads(text) == text.json

\* retrieve_history(dataset)
retrieve_history(ds) ==
  LET root == GroupAt(ds, Root)
  IN  IF ~HasAttr(root, <<"history_json">>) THEN <<>>
      ELSE json_loads(Get(root.attrs, <<"history_json">>).v)

\* construct_history without os.path.basename: the paths as they were given
construct_history_full_paths(input_files) ==
  [date_time |-> "now",
   derived_from |-> input_files,
   program |-> "concise",
   parameters |-> input_files]

\* construct_history(input_files)
construct_history(input_files) ==
  [date_time |-> "now",
   derived_from |-> [k \in DOMAIN input_files |-> basename(input_files[k])],
   program |-> "concise",
   parameters |-> input_files]

\* the loop body with `history_json = retrieve_history(dataset)` in place of
\* history_json.extend(...)
add_history_replacing(ds, acc) ==
  IF ~IsNone(acc.raised) THEN acc
  ELSE [acc EXCEPT !.history_json = retrieve_history(ds)]

\* the body of the loops of _run_single_core and _run_worker for one file
add_history(ds, acc) ==
  IF ~IsNone(acc.raised) THEN acc
  ELSE [acc EXCEPT !.history_json = @ \o retrieve_history(ds)]

visit_dataset(ds, acc) == add_history(ds, process_groups(ds, Root, acc))

visit_file(file, acc) == visit_dataset(nc_Dataset(file), acc)

\* the loop of _run_single_core from file k on: the accumulated state and the
\* number of files that were opened
RECURSIVE visit_files(_, _, _)
visit_files(file_list, k, acc) ==
  IF k > Len(file_list) \/ ~IsNone(acc.raised) THEN [acc |-> acc, visited |-> k - 1]
  ELSE visit_files(file_list, k + 1, visit_file(file_list[k], acc))

\* the tail of both preprocessing modes: the history entry is appended and
\* stored under group_metadata[group_list[0]], which raises when group_list
\* is empty (IndexError) or None (TypeError).  group_list is None or a list.
finish_preprocess(file_list, acc, group_list) ==
  IF IsNone(group_list) THEN [acc EXCEPT !.raised = Some("TypeError: group_list[0]")]
  ELSE IF Val(group_list) = <<>> THEN [acc EXCEPT !.raised = Some("IndexError: group_list[0]")]
  ELSE LET history_json == Append(acc.history_json, construct_history(file_list))
           first == Val(group_list)[1]
           attrs == Get(acc.group_metadata, first)
       IN  [acc EXCEPT
              !.group_list = Val(group_list),
              !.history_json = history_json,
              !.group_metadata = Put(acc.group_metadata, first,
                  Put(attrs, <<"history_json">>, AttrVal("str", json_dumps(history_json))))]

\* _run_single_core(file_list) of preprocess_worker
preprocess_single_core(file_list, acc) ==
  IF ~IsNone(acc.raised) THEN acc
  ELSE finish_preprocess(file_list, acc, Some(sort(acc.group_list)))

\* ------------------------------------------- preprocess: merging results
\* dict equality on var_info: same keys, values equal under __eq__
var_info_eq(a, b) ==
  /\ KeySet(a) = KeySet(b)
  /\ \A key \in KeySet(a) : VariableInfo_eq(Get(a, key), Get(b, key))

\* dict.update
RECURSIVE update(_, _, _)
update(d, other, k) ==
  IF k > Len(other) THEN d ELSE update(Put(d, other[k][1], other[k][2]), other, k + 1)

\* merge_max_dims(merged_max_dims, subset_max_dims), from entry k on
RECURSIVE merge_max_dims_from(_, _, _)
merge_max_dims_from(merged_max_dims, subset_max_dims, k) ==
  IF k > Len(subset_max_dims) THEN merged_max_dims
  ELSE LET dim_name == subset_max_dims[k][1]
           subset_dim_size == subset_max_dims[k][2]
           next == IF ~Has(merged_max_dims, dim_name)
                      \/ subset_dim_size > Get(merged_max_dims, dim_name)
                   THEN Put(merged_max_dims, dim_name, subset_dim_size)
                   ELSE merged_max_dims
       IN  merge_max_dims_from(next, subset_max_dims, k + 1)

merge_max_dims(merged_max_dims, subset_max_dims) ==
  merge_max_dims_from(merged_max_dims, subset_max_dims, 1)

\* the inner loop of merge_metadata over the attributes of one object
RECURSIVE merge_attrs_from(_, _, _)
merge_attrs_from(merged_attrs, subset_attrs, k) ==
  IF k > Len(subset_attrs) THEN merged_attrs
  ELSE LET attr_name == subset_attrs[k][1]
           subset_attr == subset_attrs[k][2]
           next == IF ~Has(merged_attrs, attr_name) THEN Put(merged_attrs, attr_name, subset_attr)
                   ELSE IF ~attr_eq(Get(merged_attrs, attr_name), subset_attr)
                        THEN Put(merged_attrs, attr_name, Inconsistent)
                        ELSE merged_attrs
       IN  merge_attrs_from(next, subset_attrs, k + 1)

\* merge_metadata(merged_metadata, subset_metadata), from entry k on
RECURSIVE merge_metadata_from(_, _, _)
merge_metadata_from(merged_metadata, subset_metadata, k) ==
  IF k > Len(subset_metadata) THEN merged_metadata
  ELSE LET var_path == subset_metadata[k][1]
           old == IF Has(merged_metadata, var_path) THEN Get(merged_metadata, var_path) ELSE <<>>
           next == Put(merged_metadata, var_path, merge_attrs_from(old, subset_metadata[k][2], 1))
       IN  merge_metadata_from(next, subset_metadata, k + 1)

merge_metadata(merged_metadata, subset_metadata) ==
  merge_metadata_from(merged_metadata, subset_metadata, 1)

\* the var_info branch of the result loop of _run_multi_core.  var_info is
\* None before the first result.  The result is [raised, var_info].
merge_var_info(var_info, result_var_info) ==
  IF IsNone(var_info) THEN [raised |-> FALSE, var_info |-> Some(result_var_info)]
  ELSE IF var_info_eq(Val(var_info), result_var_info)
       THEN [raised |-> FALSE, var_info |-> var_info]
  ELSE IF KeySet(Val(var_info)) \ KeySet(result_var_info) = {}
       THEN [raised |-> FALSE, var_info |-> var_info]
  ELSE LET intersecting_vars == KeySet(Val(var_info)) \cap KeySet(result_var_info)
       IN  IF \E key \in intersecting_vars :
                 ~VariableInfo_eq(Get(Val(var_info), key), Get(result_var_info, key))
           THEN [raised |-> TRUE, var_info |-> var_info]
           ELSE [raised |-> FALSE, var_info |-> Some(update(Val(var_info), result_var_info, 1))]

\* the result loop of _run_multi_core from result k on; group_list and
\* var_info of m are None before the first result
RECURSIVE merge_results_from(_, _, _)
merge_results_from(results, k, m) ==
  IF k > Len(results) \/ ~IsNone(m.raised) THEN m
  ELSE LET result == results[k]
           vi == merge_var_info(m.var_info, result.var_info)
       IN  IF ~IsNone(m.group_list) /\ Val(m.group_list) # result.group_list
           THEN [m EXCEPT !.raised = Some("RuntimeError: Groups are inconsistent between granules")]
           ELSE IF vi.raised
           THEN [m EXCEPT !.raised =
                   Some("RuntimeError: Variable schemas are inconsistent between granules")]
           ELSE merge_results_from(results, k + 1,
                  [m EXCEPT
                     !.group_list = IF IsNone(m.group_list) THEN Some(result.group_list)
                                    ELSE m.group_list,
                     !.var_info = vi.var_info,
                     !.max_dims = merge_max_dims(m.max_dims, result.max_dims),
                     !.var_metadata = merge_metadata(m.var_metadata, result.var_metadata),
                     !.group_metadata = merge_metadata(m.group_metadata, result.group_metadata),
                     !.history_json = m.history_json \o result.history_json])

\* _run_multi_core(file_list, process_count) of preprocess_worker, from the
\* results the workers left
finish_merge_results(file_list, m) ==
  IF ~IsNone(m.raised) THEN m
  ELSE finish_preprocess(file_list,
                         [m EXCEPT !.var_info = IF IsNone(@) THEN @ ELSE Val(@)],
                         m.group_list)

preprocess_merge_results(file_list, results) ==
  finish_merge_results(file_list,
    merge_results_from(results, 1, [EmptyAcc EXCEPT !.group_list = None, !.var_info = None]))

\* ------------------------------------------------------------ numpy arrays
Array(shape, dtype, cells) == [shape |-> shape, dtype |-> dtype, cells |-> cells]

\* np.full(shape, fill_value): the dtype is the fill value's, or object for None
np_full(shape, fill_value) ==
  IF IsNone(fill_value) THEN Array(shape, "O", [idx \in Indices(shape) |-> 0])
  ELSE Array(shape, Val(fill_value).type, [idx \in Indices(shape) |-> Val(fill_value).v])

\* np.pad(arr, [[0, w] for w in widths], mode='constant', constant_values=c)
np_pad(arr, widths, c) ==
  LET shape == [j \in DOMAIN arr.shape |-> arr.shape[j] + widths[j]]
  IN  Array(shape, arr.dtype,
            [idx \in Indices(shape) |->
               IF \A j \in DOMAIN idx : idx[j] < arr.shape[j] THEN arr.cells[idx] ELSE c])

\* numpy broadcasting of an array of shape `from` to the shape `to`
Broadcastable(from, to) ==
  /\ Len(from) <= Len(to)
  /\ \A j \in DOMAIN from :
       LET t == to[Len(to) - Len(from) + j] IN from[j] = t \/ from[j] = 1

\* np.broadcast_to(arr, shape).cells
BroadcastCells(arr, shape) ==
  [idx \in Indices(shape) |->
     arr.cells[[j \in DOMAIN arr.shape |->
                  IF arr.shape[j] = 1 THEN 0 ELSE idx[Len(shape) - Len(arr.shape) + j]]]]

\* the position of an index in C (row-major) order, and back
RECURSIVE Ravel(_, _)
Ravel(idx, shape) ==
  IF idx = <<>> THEN 0
  ELSE Head(idx) * Prod(Tail(shape)) + Ravel(Tail(idx), Tail(shape))

Unravel(n, shape) == CHOOSE idx \in Indices(shape) : Ravel(idx, shape) = n

\* the two 16-bit halves of a 32-bit two's complement integer, low half first
Wrap16(n) == IF n >= 32768 THEN n - 65536 ELSE n
Halves(v) == <<Wrap16(v % 65536), Wrap16((v \div 65536) % 65536)>>

\* np.ndarray(shape, dtype, buffer): the bytes of arr read as another dtype.
\* Only the narrowing of i4 cells to i2 cells occurs with a buffer that is
\* large enough.
Reinterpret(arr, dtype) ==
  IF dtype = arr.dtype THEN arr
  ELSE Array(arr.shape, dtype,
             [idx \in Indices(arr.shape) |->
                LET n == Ravel(idx, arr.shape)
                IN  Halves(arr.cells[Unravel(n \div 2, arr.shape)])[(n % 2) + 1]])

\* ------------------------------------------------------ the merged dataset
\* The output: its groups, its dimensions by path, subset_files, and its
\* variables by path, each with dims, datatype, fill_value, shape and data,
\* data[i] being the cells at subset index i.

\* netCDF default fill value of a datatype (NC_FILL_SHORT, NC_FILL_INT)
DefaultFill(dtype) == IF dtype = "i2" THEN 0 - 32767 ELSE 0 - 2147483647

\* the size the output gives a dimension name used in a group: the nearest
\* enclosing group of the output that defines it
RECURSIVE OutDimSize(_, _, _)
OutDimSize(dimensions, group_path, name) ==
  LET key == get_group_path(group_path, name)
  IN  IF Has(dimensions, key) THEN Some(Get(dimensions, key))
      ELSE IF group_path = Root THEN None
      ELSE OutDimSize(dimensions, ParentPath(group_path), name)

\* createGroup(path): the group and the groups above it
RECURSIVE WithGroup(_, _)
WithGroup(groups, path) ==
  IF path \in Range(groups) THEN groups
  ELSE Append(WithGroup(groups, ParentPath(path)), path)

RECURSIVE create_groups(_, _, _)
create_groups(created, groups, k) ==
  IF k > Len(groups) THEN created
  ELSE create_groups(IF groups[k] = Root THEN created ELSE WithGroup(created, groups[k]),
                     groups, k + 1)

\* the dimension loop of init_dataset from entry k on; None when
\* resolve_group does not find the dimension's group
create_dim(dimensions, size, group) ==
  IF ~group.found THEN None
  ELSE Some(Put(dimensions, get_group_path(group.group, group.name), size))

RECURSIVE create_dims(_, _, _, _)
create_dims(groups, dimensions, max_dims, k) ==
  IF k > Len(max_dims) \/ IsNone(dimensions) THEN dimensions
  ELSE create_dims(groups,
                   create_dim(Val(dimensions), max_dims[k][2],
                              resolve_group([g \in DOMAIN groups |-> [path |-> groups[g]]],
                                            max_dims[k][1])),
                   max_dims, k + 1)

\* one createVariable of init_dataset.  None when a dimension is unknown, a
\* chunk size cannot be resolved, or a chunk size is 0 (the library rejects it).
new_variable(n, info, sizes, chunk_sizes) ==
  IF \E j \in DOMAIN sizes : IsNone(sizes[j]) \/ IsNone(chunk_sizes[j]) THEN None
  ELSE IF \E j \in DOMAIN sizes : Val(chunk_sizes[j]) = 0 \/ Val(chunk_sizes[j]) > Val(sizes[j])
  THEN None
  ELSE Some([dims |-> <<<<"subset_index">>>> \o info.dim_order,
             datatype |-> info.datatype,
             fill_value |-> info.fill_value,
             shape |-> [j \in DOMAIN sizes |-> Val(sizes[j])],
             data |-> [i \in 0 .. (n - 1) |->
                         [idx \in Indices([j \in DOMAIN sizes |-> Val(sizes[j])]) |->
                            IF IsNone(info.fill_value) THEN DefaultFill(info.datatype)
                            ELSE Val(info.fill_value).v]]])

create_variable(dimensions, max_dims, n, group_path, info) ==
  new_variable(n, info,
               [j \in DOMAIN info.dim_order |->
                  OutDimSize(dimensions, group_path, info.dim_order[j])],
               [j \in DOMAIN info.dim_order |->
                  resolve_dim(max_dims, group_path, info.dim_order[j])])

\* the variable loop of init_dataset from entry k on; variables and
\* dimensions are None once a call has raised
put_variable(variables, var_path, var) ==
  IF IsNone(var) THEN None ELSE Some(Put(Val(variables), var_path, Val(var)))

RECURSIVE create_variables(_, _, _, _, _, _)
create_variables(variables, dimensions, max_dims, n, var_info, k) ==
  IF k > Len(var_info) \/ IsNone(variables) \/ IsNone(dimensions) THEN variables
  ELSE create_variables(
         put_variable(variables, var_info[k][1],
                      create_variable(Val(dimensions), max_dims, n,
                                      ParentPath(var_info[k][1]), var_info[k][2])),
         dimensions, max_dims, n, var_info, k + 1)

\* init_dataset(merged_dataset, groups, var_info, max_dims, input_files) on a
\* fresh dataset; raised is set when a library call raises
new_dataset(created, dimensions, variables, files) ==
  IF IsNone(dimensions) \/ IsNone(variables)
  THEN [raised |-> Some("init_dataset"), dataset |-> None]
  ELSE [raised |-> None,
        dataset |-> Some([groups |-> created,
                          dimensions |-> Val(dimensions),
                          subset_files |-> [i \in 0 .. (Len(files) - 1) |->
                                              PathName(files[i + 1])],
                          variables |-> Val(variables),
                          group_attrs |-> <<>>,
                          var_attrs |-> <<>>,
                          closed |-> FALSE])]

init_dimensions(created, dimensions, var_info, max_dims, files) ==
  new_dataset(created, dimensions,
              create_variables(Some(<<>>), dimensions, max_dims, Len(files), var_info, 1),
              files)

init_groups(created, var_info, max_dims, files) ==
  init_dimensions(created,
                  create_dims(created, Some(<< << <<"/", "subset_index">>, Len(files) >> >>),
                              max_dims, 1),
                  var_info, max_dims, files)

init_dataset(groups, var_info, max_dims, files) ==
  init_groups(create_groups(<<Root>>, groups, 1), var_info, max_dims, files)

\* merged_var[i] = arr.  None when the library raises: an object array cannot
\* be cast to an integer type, a shape that does not broadcast.
write_slab(var, i, arr) ==
  IF arr.dtype = "O" THEN None
  ELSE IF ~Broadcastable(arr.shape, var.shape) THEN None
  ELSE Some([var EXCEPT !.data[i] = BroadcastCells(arr, var.shape)])

\* merged_var[i] = arr for an array that may not exist because reading raised
write_array(var, i, arr) == IF IsNone(arr) THEN None ELSE write_slab(var, i, Val(arr))

\* ----------------------------------------------------------- merge_worker
\* resize_var(var, var_info, max_dims) for a variable of the group at path of
\* the dataset ds; None when it raises (KeyError of resolve_dim, ValueError
\* of np.pad on a negative width)
pad_to(arr, target, fill_value) ==
  IF Len(arr.shape) = 0 THEN Some(arr)
  ELSE IF \E j \in DOMAIN target : IsNone(target[j]) THEN None
  ELSE IF \E j \in DOMAIN target : Val(target[j]) - arr.shape[j] < 0 THEN None
  ELSE Some(np_pad(arr, [j \in DOMAIN target |-> Val(target[j]) - arr.shape[j]], fill_value))

resize_var(ds, path, var, var_info, max_dims) ==
  pad_to(VarArray(ds, path, var),
         [j \in DOMAIN var.dimensions |->
            resolve_dim(max_dims, var_info.group_path, var.dimensions[j])],
         IF IsNone(var_info.fill_value) THEN 0 ELSE Val(var_info.fill_value).v)

\* the branch for a variable the granule lacks: np.full over max_dims['/' + dim];
\* None when a key is missing
missing_var(var_meta, max_dims) ==
  IF \E j \in DOMAIN var_meta.dim_order : ~Has(max_dims, <<"/">> \o var_meta.dim_order[j])
  THEN None
  ELSE Some(np_full([j \in DOMAIN var_meta.dim_order |->
                       Get(max_dims, <<"/">> \o var_meta.dim_order[j])],
                    var_meta.fill_value))

\* what a reader or the single-core loop computes for one variable of one
\* granule: the array to write, or None when the code raises on the way
\* (resolve_group does not find the group, or one of the two branches raises)
read_resolved(ds, where, var_meta, max_dims) ==
  IF ~where.found THEN None
  ELSE IF ~HasVariable(GroupAt(ds, where.group), where.name)
  THEN missing_var(var_meta, max_dims)
  ELSE resize_var(ds, where.group, VariableOf(GroupAt(ds, where.group), where.name),
                  var_meta, max_dims)

read_variable(ds, var_path, var_meta, max_dims) ==
  read_resolved(ds, resolve_group(ds, var_path), var_meta, max_dims)

\* the inner loop of _run_single_core of merge_worker, for file i, from
\* variable k on: the variables of the output, or None when a step raises
RECURSIVE merge_file_from(_, _, _, _, _, _)
merge_file_from(variables, i, ds, var_info, max_dims, k) ==
  IF k > Len(var_info) \/ IsNone(variables) THEN variables
  ELSE merge_file_from(
         put_variable(variables, var_info[k][1],
                      write_array(Get(Val(variables), var_info[k][1]), i,
                                  read_variable(ds, var_info[k][1], var_info[k][2], max_dims))),
         i, ds, var_info, max_dims, k + 1)

\* _run_single_core(merged_dataset, file_list, var_info, max_dims), from file
\* i on: the variables of the output, None when a step raised, and the number
\* of files that were opened
RECURSIVE merge_single_core(_, _, _, _, _)
merge_single_core(variables, file_list, var_info, max_dims, i) ==
  IF i >= Len(file_list) \/ IsNone(variables) THEN [variables |-> variables, opened |-> i]
  ELSE merge_single_core(
         merge_file_from(variables, i, nc_Dataset(file_list[i + 1]), var_info, max_dims, 1),
         file_list, var_info, max_dims, i + 1)

\* ------------------------------------------------------ metadata finalizer
\* str.replace('/', '_') on an attribute name
escape(key) == [k \in DOMAIN key |-> IF key[k] = "/" THEN "_" ELSE key[k]]

\* del metadata[key]
Del(d, key) == SelectSeq(d, LAMBDA pair : pair[1] # key)

\* the test of the marker without isinstance(val, bool): any false scalar
is_marked_inconsistent_by_falsiness(val) ==
  val.type \in {"bool", "i1", "i4", "f4"} /\ val.v = 0

\* not isinstance(val, np.ndarray) and isinstance(val, bool) and not val
is_marked_inconsistent(val) == val.type = "bool" /\ val.v = 0

\* clean_metadata(metadata) over the keys list(metadata)[k..]: [raised, metadata];
\* del metadata[key] raises KeyError when the key was deleted before
RECURSIVE clean_metadata_from(_, _, _)
clean_metadata_from(keys, k, metadata) ==
  IF k > Len(keys) THEN [raised |-> FALSE, metadata |-> metadata]
  ELSE LET key == keys[k]
           val == Get(metadata, key)
           m1 == IF is_marked_inconsistent(val) \/ key = <<"_FillValue">>
                 THEN Del(metadata, key) ELSE metadata
       IN  IF "/" \in Range(key)
           THEN LET m2 == Put(m1, escape(key), val)
                IN  IF ~Has(m2, key) THEN [raised |-> TRUE, metadata |-> m2]
                    ELSE clean_metadata_from(keys, k + 1, Del(m2, key))
           ELSE clean_metadata_from(keys, k + 1, m1)

clean_metadata(metadata) == clean_metadata_from(Keys(metadata), 1, metadata)

\* the attributes the finalizing loop of merge_netcdf_files writes: for each
\* path of paths the cleaned dict of source[path]; None when a lookup or
\* clean_metadata raises
RECURSIVE cleaned_attrs(_, _, _, _)
cleaned_attrs(paths, source, k, out) ==
  IF k > Len(paths) THEN Some(out)
  ELSE IF ~Has(source, paths[k]) THEN None
  ELSE LET c == clean_metadata(Get(source, paths[k]))
       IN  IF c.raised THEN None
           ELSE cleaned_attrs(paths, source, k + 1, Put(out, paths[k], c.metadata))

\* ------------------------------------------------------- the shared memory
\* _run_multi_core of merge_worker is always called with process_count = 2
MergeProcessCount == 2

\* the sizes shared_memory_size() may report on the host
ShmSizes == {9, 64}

\* round(n * .95), Python rounding (ties to even)
Round95(n) ==
  LET q == (95 * n) \div 100
      r == (95 * n) % 100
  IN  IF r < 50 THEN q
      ELSE IF r > 50 THEN q + 1
      ELSE IF q % 2 = 0 THEN q ELSE q + 1

\* ==================================================================== state
VARIABLES
  original_input_files,  \* the list handed to merge_netcdf_files
  process_count,         \* the process_count argument, then the local variable
  cpu,                   \* what os.cpu_count() returns on this host
  pc,                    \* where merge_netcdf_files stands
  error,                 \* None, or the exception that left merge_netcdf_files
  input_files,           \* the retained (non-empty) inputs
  opened,                \* the input files opened so far, by phase
  pre_in_queue,          \* preprocess: the manager's input queue
  pre_workers,           \* preprocess: the worker processes
  results,               \* preprocess: the manager's list of worker results
  preprocess,            \* None, or what run_preprocess returned
  merged_dataset,        \* None, or the output dataset
  in_queue,              \* merge: the manager's queue of (i, file)
  out_queue,             \* merge: the manager's queue of staged buffers
  memory_limit,          \* merge: the shared counter of outstanding bytes
  readers,               \* merge: the reader processes
  processes,             \* merge: the writer's list of processes to watch
  shm,                   \* merge: the linked shared-memory segments by name
  shm_created,           \* merge: how many segments were ever created
  processed_variables,   \* merge: the writer's count of written buffers
  writer_item,           \* merge: None, or the buffer the writer took from the output queue
  lock,                  \* merge: the processes inside `with lock:` (0 is the writer)
  pending_update,        \* merge: what a process is about to add to the counter
  counter_read,          \* merge: the counter value a process has read inside `with lock:`
  service_pc,            \* service: where process_catalog stands
  items,                 \* service: the items of the catalog
  bbox,                  \* service: the accumulated bbox
  granule_urls,          \* service: the URLs of the items' granules
  datetimes,             \* service: the accumulated start and end
  url_queue,             \* download: the manager's queue of URLs
  path_list,             \* download: the manager's list of paths
  download_processes,    \* download: the worker processes
  downloads,             \* download: the URLs fetched from the network so far
  service_result,        \* service: None, or the catalog process_catalog returned
  service_error          \* service: None, or the exception that left process_catalog

pre_vars == <<pre_in_queue, pre_workers, results>>

\* the writer and the counter updates between their calls; they stay as they
\* are wherever a whole loop body is taken as one step
step_vars == <<writer_item, lock, pending_update, counter_read>>

merge_vars == <<in_queue, out_queue, memory_limit, readers, processes, shm, shm_created,
                processed_variables>>

vars == <<original_input_files, process_count, cpu, pc, error, input_files, opened,
          pre_in_queue, pre_workers, results, preprocess, merged_dataset,
          in_queue, out_queue, memory_limit, readers, processes, shm, shm_created,
          processed_variables, writer_item, lock, pending_update, counter_read,
          service_pc, items, bbox, granule_urls, datetimes,
          url_queue, path_list, download_processes, downloads, service_result,
          service_error>>

Files == KeySet(Disk)

\* the lists of at most n files
RECURSIVE FileLists(_)
FileLists(n) ==
  IF n = 0 THEN {<<>>}
  ELSE FileLists(n - 1) \cup {Append(l, f) : l \in {m \in FileLists(n - 1) : Len(m) = n - 1}, f \in Files}

InputLists == FileLists(MaxInputs)

ProcessCounts == {None} \cup {Some(n) : n \in -1 .. MaxProcessCount}

NoWorkers == <<>>

\* ============================================================ harmony service
\* ConciseService.process_catalog (harmony/service.py), the accumulators of
\* harmony/util.py and multi_core_download (harmony/download_worker.py).
\* Times are small integers, a bbox is <<xmin, ymin, xmax, ymax>>, an
\* exception is [type, msg, traceback] with the traceback a sequence of frames
\* <<file, line, function>> from the catching frame down to the raising one.

\* datetime.max and datetime.min of process_catalog, lines 109-110
DatetimeMax == 9

DatetimeMin == 0

\* the media types is_netcdf_asset accepts in strict mode
accepted_types == {"application/x-hdf5", "application/x-netcdf", "application/x-netcdf4"}

is_netcdf_asset(asset, strict) ==
  IF strict THEN asset.media_type \in accepted_types
  ELSE "data" \in asset.roles

Exception(type, msg, traceback) == [type |-> type, msg |-> msg, traceback |-> traceback]

\* get_granule_url: the href of the first compatible asset, strict mode first
get_granule_url(item, granule_urls_) ==
  LET strict == {k \in DOMAIN item.assets : is_netcdf_asset(item.assets[k], TRUE)}
      lax    == {k \in DOMAIN item.assets : is_netcdf_asset(item.assets[k], FALSE)}
  IN  IF strict # {}
      THEN [raised |-> None, granule_urls |-> Append(granule_urls_, item.assets[Min(strict)].href)]
      ELSE IF lax # {}
      THEN [raised |-> None, granule_urls |-> Append(granule_urls_, item.assets[Min(lax)].href)]
      ELSE [raised |-> Some(Exception("RuntimeError", "A NetCDF4 asset was not found in this item",
                                      << <<"util.py", 50, "get_granule_url">>,
                                         <<"util.py", 48, "get_granule_url">> >>)),
            granule_urls |-> granule_urls_]

\* get_bbox: the first bbox met is copied, a later one widens it; item.bbox
\* is subscripted without a look at None once current_bbox holds a bbox
get_bbox(item, current_bbox) ==
  IF Len(current_bbox) = 0
  THEN [raised |-> None,
        bbox |-> IF ~IsNone(item.bbox) THEN Val(item.bbox) ELSE current_bbox]
  ELSE IF IsNone(item.bbox)
  THEN [raised |-> Some(Exception("TypeError", "'NoneType' object is not subscriptable",
                                  << <<"util.py", 70, "get_bbox">> >>)),
        bbox |-> current_bbox]
  ELSE [raised |-> None,
        bbox |-> << IF Val(item.bbox)[1] < current_bbox[1] THEN Val(item.bbox)[1] ELSE current_bbox[1],
                    IF Val(item.bbox)[2] < current_bbox[2] THEN Val(item.bbox)[2] ELSE current_bbox[2],
                    IF Val(item.bbox)[3] > current_bbox[3] THEN Val(item.bbox)[3] ELSE current_bbox[3],
                    IF Val(item.bbox)[4] > current_bbox[4] THEN Val(item.bbox)[4] ELSE current_bbox[4] >>]

\* get_datetime: an item without a datetime gives its start and end
get_datetime(item, datetimes_) ==
  LET item_start_dt == IF IsNone(item.datetime) THEN item.start_datetime ELSE Val(item.datetime)
      item_end_dt   == IF IsNone(item.datetime) THEN item.end_datetime ELSE Val(item.datetime)
  IN  << IF item_start_dt < datetimes_[1] THEN item_start_dt ELSE datetimes_[1],
         IF item_end_dt > datetimes_[2] THEN item_end_dt ELSE datetimes_[2] >>

\* one more frame on top of an exception that leaves a call made at `line`
Called(ex, line) ==
  [ex EXCEPT !.traceback = << <<"service.py", line, "process_catalog">> >> \o @]

\* process_catalog, lines 113-116: the loop over the items from item k on
RECURSIVE process_metadata(_, _, _)
process_metadata(items_, k, acc) ==
  IF k > Len(items_) THEN acc
  ELSE LET b == get_bbox(items_[k], acc.bbox)
       IN  IF ~IsNone(b.raised)
           THEN [acc EXCEPT !.raised = Some(Called(Val(b.raised), 114))]
           ELSE LET u == get_granule_url(items_[k], acc.granule_urls)
                IN  IF ~IsNone(u.raised)
                    THEN [acc EXCEPT !.raised = Some(Called(Val(u.raised), 115)), !.bbox = b.bbox]
                    ELSE process_metadata(items_, k + 1,
                           [raised |-> None, bbox |-> b.bbox, granule_urls |-> u.granule_urls,
                            datetimes |-> get_datetime(items_[k], acc.datetimes)])

\* process_catalog, lines 106-111: the accumulators before the loop
EmptyMetadata ==
  [raised |-> None, bbox |-> <<>>, granule_urls |-> <<>>, datetimes |-> <<DatetimeMax, DatetimeMin>>]

\* ConciseException.__init__ with the first entry of the traceback, the frame
\* that caught the error, in place of the last
ConciseException_first_entry(original_exception) ==
  LET raised == IF IsNone(original_exception.traceback)
                THEN [original_exception EXCEPT !.traceback = << <<"service.py", 33, "__init__">> >>]
                ELSE original_exception
      tb     == raised.traceback[1]
  IN  [category |-> "podaac/concise",
       message |-> [filename |-> tb[1], lineno |-> tb[2], funcname |-> tb[3], error_msg |-> raised.msg],
       original_exception |-> raised]

\* ConciseException.__init__: an exception that was never raised is raised and
\* caught on line 33 to give it a traceback; the message is built from the
\* last entry of the traceback and from str(original_exception)
ConciseException(original_exception) ==
  LET raised == IF IsNone(original_exception.traceback)
                THEN [original_exception EXCEPT !.traceback = << <<"service.py", 33, "__init__">> >>]
                ELSE original_exception
      tb     == raised.traceback[Len(raised.traceback)]
  IN  [category |-> "podaac/concise",
       message |-> [filename |-> tb[1], lineno |-> tb[2], funcname |-> tb[3], error_msg |-> raised.msg],
       original_exception |-> raised]

\* re.match(r'.*\/(.+\..+)', path): the text after the last "/" that leaves a
\* "." with something on either side of it; None when there is no such "/"
filename_match(path) ==
  LET ok == {i \in 1 .. Len(path) :
               /\ path[i] = "/"
               /\ \E j \in i + 2 .. Len(path) - 1 : path[j] = "."}
  IN  IF ok = {} THEN None ELSE Some(SubSeq(path, Max(ok) + 1, Len(path)))

\* where harmony's download() puts a URL: a name made of the URL's digest
DigestNames == <<"sha1", "sha2", "sha3", "sha4">>

\* the TemporaryDirectory of process_catalog
destination_dir == <<"/", "tmp">>

\* the URLs the test items point to, by path
TestUrls ==
  << <<"/", "data", "/", "a1", ".", "nc">>,
     <<"/", "data", "/", "b1", ".", "nc">>,
     <<"/", "other", "/", "a1", ".", "nc">>,
     <<"/", "v1", ".", "0", "/", "granule">> >>

download(url) ==
  destination_dir \o <<"/", DigestNames[CHOOSE k \in DOMAIN TestUrls : TestUrls[k] = url]>>

Asset(href, media_type, roles) == [href |-> href, media_type |-> media_type, roles |-> roles]

Item(bbox_, datetime_, start, end, assets) ==
  [bbox |-> bbox_, datetime |-> datetime_, start_datetime |-> start, end_datetime |-> end,
   assets |-> assets]

\* the items of the catalogs: with and without a bbox, with a datetime or a
\* range, with a NetCDF asset, a data asset or neither
TestItems ==
  { Item(Some(<<0, 0, 2, 2>>), Some(3), 0, 0,
         <<Asset(TestUrls[1], "application/x-netcdf4", {"data"})>>),
    Item(Some(<<-1, 1, 1, 3>>), None, 1, 5,
         <<Asset(TestUrls[4], "text/plain", {"metadata"}),
           Asset(TestUrls[2], "application/x-netcdf4", {"data"})>>),
    Item(None, Some(2), 0, 0,
         <<Asset(TestUrls[3], "application/octet-stream", {"data"})>>),
    Item(Some(<<1, -2, 3, 0>>), Some(7), 0, 0,
         <<Asset(TestUrls[4], "application/x-hdf5", {"data"})>>),
    Item(Some(<<0, 0, 1, 1>>), Some(4), 0, 0,
         <<Asset(TestUrls[1], "text/plain", {"thumbnail"})>>) }

MaxItems == 3

\* the item lists of at most n items
RECURSIVE ItemLists(_)
ItemLists(n) ==
  IF n = 0 THEN {<<>>}
  ELSE ItemLists(n - 1) \cup {Append(l, i) : l \in {m \in ItemLists(n - 1) : Len(m) = n - 1}, i \in TestItems}

service_vars == <<service_pc, items, bbox, granule_urls, datetimes, url_queue, path_list,
                  download_processes, downloads, service_result, service_error>>

\* no catalog is being processed: the state of the service variables while
\* merge_netcdf_files is run on its own
ServiceIdle ==
  /\ service_pc = "idle"
  /\ items = <<>>
  /\ bbox = <<>>
  /\ granule_urls = <<>>
  /\ datetimes = <<DatetimeMax, DatetimeMin>>
  /\ url_queue = <<>>
  /\ path_list = <<>>
  /\ download_processes = <<>>
  /\ downloads = <<>>
  /\ service_result = None
  /\ service_error = None

Init ==
  /\ original_input_files \in InputLists
  /\ process_count \in ProcessCounts
  \* os.cpu_count() is read only when process_count is None
  /\ cpu \in IF IsNone(process_count) THEN 1 .. MaxCpu ELSE {MaxCpu}
  /\ pc = "start"
  /\ error = None
  /\ input_files = <<>>
  /\ opened = [filter |-> {}, preprocess |-> {}, merge |-> {}]
  /\ pre_in_queue = <<>>
  /\ pre_workers = NoWorkers
  /\ results = <<>>
  /\ preprocess = None
  /\ merged_dataset = None
  /\ in_queue = <<>>
  /\ out_queue = <<>>
  /\ memory_limit = 0
  /\ readers = <<>>
  /\ processes = <<>>
  /\ shm = <<>>
  /\ shm_created = 0
  /\ processed_variables = 0
  /\ writer_item = None
  /\ lock = {}
  /\ pending_update = <<>>
  /\ counter_read = <<>>
  /\ ServiceIdle

\* the check of process_count with `< 0` in place of `<= 0`
CheckProcessCount_accepts_zero ==
  /\ pc = "start"
  /\ IF IsNone(process_count)
     THEN /\ process_count' = Some(cpu)
          /\ pc' = "filter"
          /\ error' = None
     ELSE IF Val(process_count) < 0
     THEN /\ process_count' = process_count
          /\ pc' = "failed"
          /\ error' = Some("RuntimeError: process_count should be > 0")
     ELSE /\ process_count' = process_count
          /\ pc' = "filter"
          /\ error' = None
  /\ UNCHANGED service_vars
  /\ UNCHANGED step_vars
  /\ UNCHANGED <<original_input_files, cpu, input_files, opened, preprocess>>
  /\ UNCHANGED pre_vars
  /\ UNCHANGED merge_vars
  /\ UNCHANGED merged_dataset

\* merge_netcdf_files, lines 46-52: the default and the check of process_count
CheckProcessCount ==
  /\ pc = "start"
  /\ IF IsNone(process_count)
     THEN /\ process_count' = Some(cpu)
          /\ pc' = "filter"
          /\ error' = None
     ELSE IF Val(process_count) <= 0
     THEN /\ process_count' = process_count
          /\ pc' = "failed"
          /\ error' = Some("RuntimeError: process_count should be > 0")
     ELSE /\ process_count' = process_count
          /\ pc' = "filter"
          /\ error' = None
  /\ UNCHANGED service_vars
  /\ UNCHANGED step_vars
  /\ UNCHANGED <<original_input_files, cpu, input_files, opened, preprocess>>
  /\ UNCHANGED pre_vars
  /\ UNCHANGED merge_vars
  /\ UNCHANGED merged_dataset

\* merge_netcdf_files, lines 58-65: only the files that are not empty are kept
FilterInputs ==
  /\ pc = "filter"
  /\ input_files' = SelectSeq(original_input_files,
                              LAMBDA file : ~is_file_empty(nc_Dataset(file), Root))
  /\ opened' = [opened EXCEPT !.filter = Range(original_input_files)]
  /\ pc' = "preprocess"
  /\ UNCHANGED service_vars
  /\ UNCHANGED step_vars
  /\ UNCHANGED <<original_input_files, process_count, cpu, error, preprocess>>
  /\ UNCHANGED pre_vars
  /\ UNCHANGED merge_vars
  /\ UNCHANGED merged_dataset

\* run_preprocess with process_count == 1: _run_single_core
PreprocessSingleCore ==
  /\ pc = "preprocess"
  /\ Val(process_count) = 1
  /\ \E loop \in {visit_files(input_files, 1, EmptyAcc)} :
       /\ opened' = [opened EXCEPT !.preprocess =
                       {input_files[k] : k \in 1 .. loop.visited}]
       /\ \E r \in {preprocess_single_core(input_files, loop.acc)} :
            IF IsNone(r.raised)
            THEN /\ preprocess' = Some(r)
                 /\ pc' = "init"
                 /\ error' = None
            ELSE /\ preprocess' = None
                 /\ pc' = "failed"
                 /\ error' = r.raised
  /\ UNCHANGED service_vars
  /\ UNCHANGED step_vars
  /\ UNCHANGED <<original_input_files, process_count, cpu, input_files>>
  /\ UNCHANGED pre_vars
  /\ UNCHANGED merge_vars
  /\ UNCHANGED merged_dataset

\* _run_multi_core of preprocess_worker, lines 191-202: the queue is filled
\* and process_count workers are started
PreprocessStart ==
  /\ pc = "preprocess"
  /\ Val(process_count) # 1
  /\ pre_in_queue' = input_files
  /\ pre_workers' = [w \in 1 .. Val(process_count) |->
                       [state |-> "running", empty |-> TRUE, acc |-> EmptyAcc, exitcode |-> None]]
  /\ results' = <<>>
  /\ pc' = "pre_join"
  /\ UNCHANGED service_vars
  /\ UNCHANGED step_vars
  /\ UNCHANGED <<original_input_files, process_count, cpu, error, input_files, opened, preprocess>>
  /\ UNCHANGED merge_vars
  /\ UNCHANGED merged_dataset

\* _run_worker of preprocess_worker: one turn of the loop, a file is taken
\* from the queue and visited; an exception ends the process with exit code 1
PreWorkerVisit(w) ==
  /\ pc = "pre_join"
  /\ pre_workers[w].state = "running"
  /\ pre_in_queue # <<>>
  /\ \E a \in {visit_file(Head(pre_in_queue), pre_workers[w].acc)} :
       /\ pre_in_queue' = Tail(pre_in_queue)
       /\ opened' = [opened EXCEPT !.preprocess = @ \cup {Head(pre_in_queue)}]
       /\ pre_workers' = [pre_workers EXCEPT ![w] =
            IF IsNone(a.raised)
            THEN [@ EXCEPT !.empty = FALSE, !.acc = a]
            ELSE [@ EXCEPT !.empty = FALSE, !.acc = a, !.state = "exited",
                           !.exitcode = Some(1)]]
  /\ UNCHANGED service_vars
  /\ UNCHANGED step_vars
  /\ UNCHANGED <<original_input_files, process_count, cpu, pc, error, input_files,
                 results, preprocess>>
  /\ UNCHANGED merge_vars
  /\ UNCHANGED merged_dataset

\* the end of the worker without `if not empty`: the result is appended
\* whether or not a file was visited
PreWorkerExit_always_appending(w) ==
  /\ pc = "pre_join"
  /\ pre_workers[w].state = "running"
  /\ pre_in_queue = <<>>
  /\ results' = Append(results, [pre_workers[w].acc EXCEPT !.group_list = sort(@)])
  /\ pre_workers' = [pre_workers EXCEPT ![w] = [@ EXCEPT !.state = "exited", !.exitcode = Some(0)]]
  /\ UNCHANGED service_vars
  /\ UNCHANGED step_vars
  /\ UNCHANGED <<original_input_files, process_count, cpu, pc, error, input_files, opened,
                 pre_in_queue, preprocess>>
  /\ UNCHANGED merge_vars
  /\ UNCHANGED merged_dataset

\* _run_worker of preprocess_worker: the queue is empty, the worker sorts its
\* group list, appends its result unless it visited nothing, and exits
PreWorkerExit(w) ==
  /\ pc = "pre_join"
  /\ pre_workers[w].state = "running"
  /\ pre_in_queue = <<>>
  /\ results' = IF pre_workers[w].empty THEN results
                ELSE Append(results,
                       [pre_workers[w].acc EXCEPT !.group_list = sort(@)])
  /\ pre_workers' = [pre_workers EXCEPT ![w] = [@ EXCEPT !.state = "exited", !.exitcode = Some(0)]]
  /\ UNCHANGED service_vars
  /\ UNCHANGED step_vars
  /\ UNCHANGED <<original_input_files, process_count, cpu, pc, error, input_files, opened,
                 pre_in_queue, preprocess>>
  /\ UNCHANGED merge_vars
  /\ UNCHANGED merged_dataset

\* the join loop of _run_multi_core: it stops at the first process, in start
\* order, that has exited with a non-zero code
FirstFailed(workers) ==
  {w \in DOMAIN workers :
     /\ workers[w].exitcode = Some(1)
     /\ \A v \in 1 .. (w - 1) : workers[v].exitcode = Some(0)}

PreprocessJoinFailed ==
  /\ pc = "pre_join"
  /\ FirstFailed(pre_workers) # {}
  /\ pc' = "failed"
  /\ error' = Some("RuntimeError: Preprocessing failed")
  /\ UNCHANGED service_vars
  /\ UNCHANGED step_vars
  /\ UNCHANGED <<original_input_files, process_count, cpu, input_files, opened, preprocess>>
  /\ UNCHANGED pre_vars
  /\ UNCHANGED merge_vars
  /\ UNCHANGED merged_dataset

\* every process has been joined with exit code 0: the results are merged
PreprocessMergeResults ==
  /\ pc = "pre_join"
  /\ \A w \in DOMAIN pre_workers : pre_workers[w].exitcode = Some(0)
  /\ \E r \in {preprocess_merge_results(input_files, results)} :
       IF IsNone(r.raised)
       THEN /\ preprocess' = Some(r)
            /\ pc' = "init"
            /\ error' = None
       ELSE /\ preprocess' = None
            /\ pc' = "failed"
            /\ error' = r.raised
  /\ UNCHANGED service_vars
  /\ UNCHANGED step_vars
  /\ UNCHANGED <<original_input_files, process_count, cpu, input_files, opened>>
  /\ UNCHANGED pre_vars
  /\ UNCHANGED merge_vars
  /\ UNCHANGED merged_dataset

\* the dataset nc.Dataset(output_file, 'w') creates, before init_dataset
FreshDataset ==
  [groups |-> <<Root>>, dimensions |-> <<>>, subset_files |-> <<>>, variables |-> <<>>,
   group_attrs |-> <<>>, var_attrs |-> <<>>, closed |-> FALSE]

\* merge_netcdf_files, lines 77-79: the output file is created and initialized
InitDataset ==
  /\ pc = "init"
  /\ \E r \in {init_dataset(Val(preprocess).group_list, Val(preprocess).var_info,
                             Val(preprocess).max_dims, input_files)} :
       IF IsNone(r.raised)
       THEN /\ merged_dataset' = r.dataset
            /\ pc' = "merge"
            /\ error' = None
       ELSE /\ merged_dataset' = Some(FreshDataset)
            /\ pc' = "failed"
            /\ error' = Some("RuntimeError: init_dataset")
  /\ UNCHANGED service_vars
  /\ UNCHANGED step_vars
  /\ UNCHANGED <<original_input_files, process_count, cpu, input_files, opened, preprocess>>
  /\ UNCHANGED pre_vars
  /\ UNCHANGED merge_vars

\* run_merge with process_count == 1: _run_single_core of merge_worker
MergeSingleCore ==
  /\ pc = "merge"
  /\ Val(process_count) = 1
  /\ \E r \in {merge_single_core(Some(Val(merged_dataset).variables), input_files,
                                  Val(preprocess).var_info, Val(preprocess).max_dims, 0)} :
       /\ opened' = [opened EXCEPT !.merge = {input_files[k] : k \in 1 .. r.opened}]
       /\ IF IsNone(r.variables)
          THEN /\ pc' = "failed"
               /\ error' = Some("Error: _run_single_core")
               /\ UNCHANGED merged_dataset
          ELSE /\ pc' = "finalize"
               /\ error' = None
               /\ merged_dataset' =
                    Some([Val(merged_dataset) EXCEPT !.variables = Val(r.variables)])
  /\ UNCHANGED service_vars
  /\ UNCHANGED step_vars
  /\ UNCHANGED <<original_input_files, process_count, cpu, input_files, preprocess>>
  /\ UNCHANGED pre_vars
  /\ UNCHANGED merge_vars

total_variables == Len(input_files) * Len(Val(preprocess).var_info)

\* Queue(maxsize): a maxsize of 0 is no limit
QueueFull(q, maxsize) == maxsize > 0 /\ Len(q) >= maxsize

\* the start of the merge with one reader per process beyond the writer:
\* run_merge hands its own process_count on to _run_multi_core
MergeStart_with_process_count ==
  /\ pc = "merge"
  /\ Val(process_count) # 1
  /\ in_queue' = [k \in DOMAIN input_files |-> <<k - 1, input_files[k]>>]
  /\ out_queue' = <<>>
  /\ memory_limit' = 0
  /\ \E size \in ShmSizes :
       readers' = [r \in 1 .. (Val(process_count) - 1) |->
                     [state |-> "running", exitcode |-> None, file |-> None, k |-> 1,
                      staged |-> None, max_memory_size |-> Round95(size)]]
  /\ processes' = [r \in 1 .. (Val(process_count) - 1) |-> r]
  /\ shm' = <<>>
  /\ shm_created' = 0
  /\ processed_variables' = 0
  /\ pc' = "merge_multi"
  /\ UNCHANGED service_vars
  /\ UNCHANGED step_vars
  /\ UNCHANGED <<original_input_files, process_count, cpu, error, input_files, opened,
                 preprocess, merged_dataset>>
  /\ UNCHANGED pre_vars

\* _run_multi_core of merge_worker, lines 116-138: the queues are made, the
\* input queue is filled and the reader processes are started; each reader
\* reads the size of the shared memory of the host
MergeStart ==
  /\ pc = "merge"
  /\ Val(process_count) # 1
  /\ in_queue' = [k \in DOMAIN input_files |-> <<k - 1, input_files[k]>>]
  /\ out_queue' = <<>>
  /\ memory_limit' = 0
  /\ \E size \in ShmSizes :
       readers' = [r \in 1 .. (MergeProcessCount - 1) |->
                     [state |-> "running", exitcode |-> None, file |-> None, k |-> 1,
                      staged |-> None, max_memory_size |-> Round95(size)]]
  /\ processes' = [r \in 1 .. (MergeProcessCount - 1) |-> r]
  /\ shm' = <<>>
  /\ shm_created' = 0
  /\ processed_variables' = 0
  /\ pc' = "merge_multi"
  /\ UNCHANGED service_vars
  /\ UNCHANGED step_vars
  /\ UNCHANGED <<original_input_files, process_count, cpu, error, input_files, opened,
                 preprocess, merged_dataset>>
  /\ UNCHANGED pre_vars

\* the reader reads the head of the input queue and leaves it there
ReaderTake_peeking(r) ==
  /\ pc = "merge_multi"
  /\ readers[r].state = "running"
  /\ IsNone(readers[r].file)
  /\ in_queue # <<>>
  /\ in_queue' = in_queue
  /\ opened' = [opened EXCEPT !.merge = @ \cup {Head(in_queue)[2]}]
  /\ readers' = [readers EXCEPT ![r] =
       IF Len(Val(preprocess).var_info) = 0 THEN @
       ELSE [@ EXCEPT !.file = Some(Head(in_queue)), !.k = 1]]
  /\ UNCHANGED service_vars
  /\ UNCHANGED step_vars
  /\ UNCHANGED <<original_input_files, process_count, cpu, pc, error, input_files,
                 preprocess, merged_dataset, out_queue, memory_limit, processes, shm,
                 shm_created, processed_variables>>
  /\ UNCHANGED pre_vars

\* _run_worker of merge_worker: in_queue.get_nowait() gives the next file
ReaderTake(r) ==
  /\ pc = "merge_multi"
  /\ readers[r].state = "running"
  /\ IsNone(readers[r].file)
  /\ in_queue # <<>>
  /\ in_queue' = Tail(in_queue)
  /\ opened' = [opened EXCEPT !.merge = @ \cup {Head(in_queue)[2]}]
  /\ readers' = [readers EXCEPT ![r] =
       IF Len(Val(preprocess).var_info) = 0 THEN @
       ELSE [@ EXCEPT !.file = Some(Head(in_queue)), !.k = 1]]
  /\ UNCHANGED service_vars
  /\ UNCHANGED step_vars
  /\ UNCHANGED <<original_input_files, process_count, cpu, pc, error, input_files,
                 preprocess, merged_dataset, out_queue, memory_limit, processes, shm,
                 shm_created, processed_variables>>
  /\ UNCHANGED pre_vars

\* _run_worker of merge_worker: the input queue is empty, the reader returns
ReaderExit(r) ==
  /\ pc = "merge_multi"
  /\ readers[r].state = "running"
  /\ IsNone(readers[r].file)
  /\ in_queue = <<>>
  /\ readers' = [readers EXCEPT ![r] = [@ EXCEPT !.state = "exited", !.exitcode = Some(0)]]
  /\ UNCHANGED service_vars
  /\ UNCHANGED step_vars
  /\ UNCHANGED <<original_input_files, process_count, cpu, pc, error, input_files, opened,
                 preprocess, merged_dataset, in_queue, out_queue, memory_limit, processes,
                 shm, shm_created, processed_variables>>
  /\ UNCHANGED pre_vars

\* what the reader r is about to stage: the array of its current variable
ReaderArray(r) ==
  read_variable(nc_Dataset(Val(readers[r].file)[2]),
                Val(preprocess).var_info[readers[r].k][1],
                Val(preprocess).var_info[readers[r].k][2],
                Val(preprocess).max_dims)

\* the staging step without the wait loop: the segment is created whatever
\* the counter and the output queue say
ReaderStage_without_wait(r) ==
  /\ pc = "merge_multi"
  /\ readers[r].state = "running"
  /\ ~IsNone(readers[r].file)
  /\ IsNone(readers[r].staged)
  /\ \E arr \in {ReaderArray(r)},
        dead \in {[readers EXCEPT ![r] = [@ EXCEPT !.state = "exited", !.exitcode = Some(1)]]} :
         IF IsNone(arr) \/ nbytes(Val(arr)) > readers[r].max_memory_size
         THEN \* reading raised, or MAX MEMORY REACHED
              /\ readers' = dead
              /\ UNCHANGED <<memory_limit, shm, shm_created>>
         ELSE
              /\ IF nbytes(Val(arr)) = 0
                 THEN \* SharedMemory(create=True, size=0) raises ValueError
                      /\ readers' = dead
                      /\ UNCHANGED <<memory_limit, shm, shm_created>>
                 ELSE IF Val(arr).dtype = "O"
                 THEN \* np.ndarray(..., buffer=...) refuses an object dtype: the
                      \* segment exists and the process dies
                      /\ readers' = dead
                      /\ shm' = Put(shm, shm_created + 1, Val(arr))
                      /\ shm_created' = shm_created + 1
                      /\ UNCHANGED memory_limit
                 ELSE /\ shm' = Put(shm, shm_created + 1, Val(arr))
                      /\ shm_created' = shm_created + 1
                      /\ memory_limit' = memory_limit + nbytes(Val(arr))
                      /\ readers' = [readers EXCEPT ![r] = [@ EXCEPT !.staged =
                           Some([i |-> Val(readers[r].file)[1],
                                 var_path |-> Val(preprocess).var_info[readers[r].k][1],
                                 shape |-> Val(arr).shape,
                                 name |-> shm_created + 1])]]
  /\ UNCHANGED service_vars
  /\ UNCHANGED step_vars
  /\ UNCHANGED <<original_input_files, process_count, cpu, pc, error, input_files, opened,
                 preprocess, merged_dataset, in_queue, out_queue, processes,
                 processed_variables>>
  /\ UNCHANGED pre_vars

\* _run_worker of merge_worker, lines 195-222: the next variable of the
\* current file is read and resized, the reader waits for room, copies the
\* array to a new segment and adds its size to the counter.  The process
\* ends with exit code 1 when a step raises.
ReaderStage(r) ==
  /\ pc = "merge_multi"
  /\ readers[r].state = "running"
  /\ ~IsNone(readers[r].file)
  /\ IsNone(readers[r].staged)
  /\ \E arr \in {ReaderArray(r)},
        dead \in {[readers EXCEPT ![r] = [@ EXCEPT !.state = "exited", !.exitcode = Some(1)]]} :
         IF IsNone(arr) \/ nbytes(Val(arr)) > readers[r].max_memory_size
         THEN \* reading raised, or MAX MEMORY REACHED
              /\ readers' = dead
              /\ UNCHANGED <<memory_limit, shm, shm_created>>
         ELSE \* while memory_limit.value + nbytes > max_memory_size and not out_queue.empty()
              /\ ~(memory_limit + nbytes(Val(arr)) > readers[r].max_memory_size
                   /\ out_queue # <<>>)
              /\ IF nbytes(Val(arr)) = 0
                 THEN \* SharedMemory(create=True, size=0) raises ValueError
                      /\ readers' = dead
                      /\ UNCHANGED <<memory_limit, shm, shm_created>>
                 ELSE IF Val(arr).dtype = "O"
                 THEN \* np.ndarray(..., buffer=...) refuses an object dtype: the
                      \* segment exists and the process dies
                      /\ readers' = dead
                      /\ shm' = Put(shm, shm_created + 1, Val(arr))
                      /\ shm_created' = shm_created + 1
                      /\ UNCHANGED memory_limit
                 ELSE /\ shm' = Put(shm, shm_created + 1, Val(arr))
                      /\ shm_created' = shm_created + 1
                      /\ memory_limit' = memory_limit + nbytes(Val(arr))
                      /\ readers' = [readers EXCEPT ![r] = [@ EXCEPT !.staged =
                           Some([i |-> Val(readers[r].file)[1],
                                 var_path |-> Val(preprocess).var_info[readers[r].k][1],
                                 shape |-> Val(arr).shape,
                                 name |-> shm_created + 1])]]
  /\ UNCHANGED service_vars
  /\ UNCHANGED step_vars
  /\ UNCHANGED <<original_input_files, process_count, cpu, pc, error, input_files, opened,
                 preprocess, merged_dataset, in_queue, out_queue, processes,
                 processed_variables>>
  /\ UNCHANGED pre_vars

\* a reader that stores its array in the output dataset itself when it posts
ReaderPut_writing(r) ==
  /\ pc = "merge_multi"
  /\ readers[r].state = "running"
  /\ ~IsNone(readers[r].staged)
  /\ ~QueueFull(out_queue, (MergeProcessCount - 1) * Len(Val(preprocess).var_info))
  /\ out_queue' = Append(out_queue, Val(readers[r].staged))
  /\ \E written \in {write_slab(Get(Val(merged_dataset).variables, Val(readers[r].staged).var_path),
                                  Val(readers[r].staged).i,
                                  Get(shm, Val(readers[r].staged).name))} :
       merged_dataset' =
         IF IsNone(written) THEN merged_dataset
         ELSE Some([Val(merged_dataset) EXCEPT !.variables =
                      Put(@, Val(readers[r].staged).var_path, Val(written))])
  /\ readers' = [readers EXCEPT ![r] =
       IF readers[r].k >= Len(Val(preprocess).var_info)
       THEN [@ EXCEPT !.staged = None, !.file = None, !.k = 1]
       ELSE [@ EXCEPT !.staged = None, !.k = @ + 1]]
  /\ UNCHANGED service_vars
  /\ UNCHANGED step_vars
  /\ UNCHANGED <<original_input_files, process_count, cpu, pc, error, input_files, opened,
                 preprocess, in_queue, memory_limit, processes, shm,
                 shm_created, processed_variables>>
  /\ UNCHANGED pre_vars

\* _run_worker of merge_worker, line 223: out_queue.put, which blocks while
\* the queue is full; then the loop goes on to the next variable
ReaderPut(r) ==
  /\ pc = "merge_multi"
  /\ readers[r].state = "running"
  /\ ~IsNone(readers[r].staged)
  /\ ~QueueFull(out_queue, (MergeProcessCount - 1) * Len(Val(preprocess).var_info))
  /\ out_queue' = Append(out_queue, Val(readers[r].staged))
  /\ readers' = [readers EXCEPT ![r] =
       IF readers[r].k >= Len(Val(preprocess).var_info)
       THEN [@ EXCEPT !.staged = None, !.file = None, !.k = 1]
       ELSE [@ EXCEPT !.staged = None, !.k = @ + 1]]
  /\ UNCHANGED service_vars
  /\ UNCHANGED step_vars
  /\ UNCHANGED <<original_input_files, process_count, cpu, pc, error, input_files, opened,
                 preprocess, merged_dataset, in_queue, memory_limit, processes, shm,
                 shm_created, processed_variables>>
  /\ UNCHANGED pre_vars

\* the writer step without shared_memory.unlink(): the segment stays linked
\* after its array is written
WriterWrite_without_unlink ==
  /\ pc = "merge_multi"
  /\ processed_variables < total_variables
  /\ out_queue # <<>>
  /\ LET item == Head(out_queue)
         ds == Val(merged_dataset)
         var_meta == Get(Val(preprocess).var_info, item.var_path)
         segment == Get(shm, item.name)
         size == ItemSize(var_meta.datatype) * Prod(item.shape)
         written == IF size > nbytes(segment) THEN None
                    ELSE write_slab(Get(ds.variables, item.var_path), item.i,
                                    Reinterpret(segment, var_meta.datatype))
     IN  /\ out_queue' = Tail(out_queue)
         /\ IF IsNone(written)
            THEN /\ pc' = "failed"
                 /\ error' = Some("Error: writer")
                 /\ UNCHANGED <<merged_dataset, shm, memory_limit, processed_variables>>
            ELSE /\ merged_dataset' =
                      Some([ds EXCEPT !.variables = Put(@, item.var_path, Val(written))])
                 /\ shm' = shm
                 /\ memory_limit' = memory_limit - size
                 /\ processed_variables' = processed_variables + 1
                 /\ UNCHANGED <<pc, error>>
  /\ UNCHANGED service_vars
  /\ UNCHANGED step_vars
  /\ UNCHANGED <<original_input_files, process_count, cpu, input_files, opened, preprocess,
                 in_queue, readers, processes, shm_created>>
  /\ UNCHANGED pre_vars

\* the writer loop of _run_multi_core, lines 143-158: a buffer is taken from
\* the output queue, read as an array of the variable's datatype, written at
\* its subset index, unlinked and taken off the counter
WriterWrite ==
  /\ pc = "merge_multi"
  /\ processed_variables < total_variables
  /\ out_queue # <<>>
  /\ LET item == Head(out_queue)
         ds == Val(merged_dataset)
         var_meta == Get(Val(preprocess).var_info, item.var_path)
         segment == Get(shm, item.name)
         size == ItemSize(var_meta.datatype) * Prod(item.shape)
         written == IF size > nbytes(segment) THEN None
                    ELSE write_slab(Get(ds.variables, item.var_path), item.i,
                                    Reinterpret(segment, var_meta.datatype))
     IN  /\ out_queue' = Tail(out_queue)
         /\ IF IsNone(written)
            THEN \* np.ndarray: buffer too small, or the assignment raises
                 /\ pc' = "failed"
                 /\ error' = Some("Error: writer")
                 /\ UNCHANGED <<merged_dataset, shm, memory_limit, processed_variables>>
            ELSE /\ merged_dataset' =
                      Some([ds EXCEPT !.variables = Put(@, item.var_path, Val(written))])
                 /\ shm' = Del(shm, item.name)
                 /\ memory_limit' = memory_limit - size
                 /\ processed_variables' = processed_variables + 1
                 /\ UNCHANGED <<pc, error>>
  /\ UNCHANGED service_vars
  /\ UNCHANGED step_vars
  /\ UNCHANGED <<original_input_files, process_count, cpu, input_files, opened, preprocess,
                 in_queue, readers, processes, shm_created>>
  /\ UNCHANGED pre_vars

\* _check_exit without the raise: the processes that exited with 0 leave the
\* list, a non-zero exit code is passed over
WriterCheckExit_ignoring_exitcode ==
  /\ pc = "merge_multi"
  /\ processed_variables < total_variables
  /\ out_queue = <<>>
  /\ \E k \in DOMAIN processes : readers[processes[k]].state = "exited"
  /\ processes' = SelectSeq(processes, LAMBDA r : readers[r].exitcode # Some(0))
  /\ UNCHANGED <<pc, error>>
  /\ UNCHANGED service_vars
  /\ UNCHANGED step_vars
  /\ UNCHANGED <<original_input_files, process_count, cpu, input_files, opened, preprocess,
                 merged_dataset, in_queue, out_queue, memory_limit, readers, shm, shm_created,
                 processed_variables>>
  /\ UNCHANGED pre_vars

\* _check_exit(processes), called when the output queue is found empty: a
\* process that exited with a non-zero code raises, the processes that exited
\* with 0 leave the list
WriterCheckExit ==
  /\ pc = "merge_multi"
  /\ processed_variables < total_variables
  /\ out_queue = <<>>
  /\ \E k \in DOMAIN processes : readers[processes[k]].state = "exited"
  /\ IF \E k \in DOMAIN processes : readers[processes[k]].exitcode = Some(1)
     THEN /\ pc' = "failed"
          /\ error' = Some("RuntimeError: Merging failed")
          /\ processes' = SelectSeq(processes, LAMBDA r :
               ~(readers[r].exitcode = Some(0)
                 /\ \A k \in DOMAIN processes :
                      readers[processes[k]].exitcode = Some(1) =>
                        \E j \in 1 .. (k - 1) : processes[j] = r))
     ELSE /\ processes' = SelectSeq(processes, LAMBDA r : readers[r].state # "exited")
          /\ UNCHANGED <<pc, error>>
  /\ UNCHANGED service_vars
  /\ UNCHANGED step_vars
  /\ UNCHANGED <<original_input_files, process_count, cpu, input_files, opened, preprocess,
                 merged_dataset, in_queue, out_queue, memory_limit, readers, shm, shm_created,
                 processed_variables>>
  /\ UNCHANGED pre_vars

\* _run_multi_core of merge_worker, lines 160-163: every buffer is written,
\* the writer joins the processes left in its list
WriterJoin ==
  /\ pc = "merge_multi"
  /\ processed_variables >= total_variables
  /\ \A k \in DOMAIN processes : readers[processes[k]].state = "exited"
  /\ pc' = "finalize"
  /\ UNCHANGED service_vars
  /\ UNCHANGED step_vars
  /\ UNCHANGED <<original_input_files, process_count, cpu, error, input_files, opened,
                 preprocess, merged_dataset>>
  /\ UNCHANGED pre_vars
  /\ UNCHANGED merge_vars

\* the path of every variable the output holds, /subset_files left out
\* (it lives outside variables here), in group order
OutputVarPaths(ds, group_list) ==
  LET InGroup(g) == SelectSeq(Keys(ds.variables), LAMBDA vp :
                      (IF rsplit1(vp)[1] = <<>> THEN Root ELSE rsplit1(vp)[1]) = g)
      F[k \in 0 .. Len(group_list)] ==
        IF k = 0 THEN <<>> ELSE F[k - 1] \o InGroup(group_list[k])
  IN  F[Len(group_list)]

\* merge_netcdf_files, lines 93-113: the cleaned attributes are written to
\* every group and variable, the dataset is closed
Finalize ==
  /\ pc = "finalize"
  /\ LET p == Val(preprocess)
         ds == Val(merged_dataset)
         group_attrs == cleaned_attrs(p.group_list, p.group_metadata, 1, <<>>)
         var_attrs == cleaned_attrs(OutputVarPaths(ds, p.group_list), p.var_metadata, 1, <<>>)
     IN  IF IsNone(group_attrs) \/ IsNone(var_attrs)
         THEN /\ pc' = "failed"
              /\ error' = Some("KeyError: finalize")
              /\ UNCHANGED merged_dataset
         ELSE /\ merged_dataset' = Some([ds EXCEPT !.group_attrs = Val(group_attrs),
                                                   !.var_attrs = Val(var_attrs),
                                                   !.closed = TRUE])
              /\ pc' = "done"
              /\ error' = None
  /\ UNCHANGED service_vars
  /\ UNCHANGED step_vars
  /\ UNCHANGED <<original_input_files, process_count, cpu, input_files, opened, preprocess>>
  /\ UNCHANGED pre_vars
  /\ UNCHANGED merge_vars

Next ==
  \/ CheckProcessCount
  \/ FilterInputs
  \/ PreprocessSingleCore
  \/ PreprocessStart
  \/ \E w \in DOMAIN pre_workers : PreWorkerVisit(w)
  \/ \E w \in DOMAIN pre_workers : PreWorkerExit(w)
  \/ PreprocessJoinFailed
  \/ PreprocessMergeResults
  \/ InitDataset
  \/ MergeSingleCore
  \/ MergeStart
  \/ \E r \in DOMAIN readers : ReaderTake(r)
  \/ \E r \in DOMAIN readers : ReaderExit(r)
  \/ \E r \in DOMAIN readers : ReaderStage(r)
  \/ \E r \in DOMAIN readers : ReaderPut(r)
  \/ WriterWrite
  \/ WriterCheckExit
  \/ WriterJoin
  \/ Finalize

Spec == Init /\ [][Next]_vars

\* ------------------------------------------- a reader that dies on its own
\* A reader process of the merge ends with a non-zero exit code at a point
\* where the steps above do not raise: it is terminated by a signal, or an
\* exception leaves shared_mem.close(), the closing of the granule or the
\* queue proxy.  What it had staged stays where it is.
ReaderKilled(r) ==
  /\ pc = "merge_multi"
  /\ readers[r].state = "running"
  /\ readers' = [readers EXCEPT ![r] = [@ EXCEPT !.state = "exited", !.exitcode = Some(1)]]
  /\ UNCHANGED service_vars
  /\ UNCHANGED step_vars
  /\ UNCHANGED <<original_input_files, process_count, cpu, pc, error, input_files, opened,
                 preprocess, merged_dataset, in_queue, out_queue, memory_limit, processes,
                 shm, shm_created, processed_variables>>
  /\ UNCHANGED pre_vars

NextReaderFailure ==
  \/ Next
  \/ \E r \in DOMAIN readers : ReaderKilled(r)

\* merge_netcdf_files on a host where reader processes may die
SpecReaderFailure == Init /\ [][NextReaderFailure]_vars

\* ---------------------------------------------- the merge call by call
\* The multi-worker merge with the writer's loop body and the two updates of
\* the counter taken one call at a time.  Between out_queue.get_nowait() and
\* shared_memory.unlink() a buffer is in no queue while its segment is linked
\* and counted; `with lock: memory_limit.value = memory_limit.value + n` is an
\* acquire, a read through the proxy, a write through the proxy and a release.

\* the writer's name among the processes that update the counter
Writer == 0

\* _run_worker of merge_worker, lines 195-220: the next variable of the
\* current file is read and resized, the reader waits for room and copies the
\* array to a new segment; the counter is still to be updated
ReaderCreate(r) ==
  /\ pc = "merge_multi"
  /\ readers[r].state = "running"
  /\ ~IsNone(readers[r].file)
  /\ IsNone(readers[r].staged)
  /\ \E arr \in {ReaderArray(r)},
        dead \in {[readers EXCEPT ![r] = [@ EXCEPT !.state = "exited", !.exitcode = Some(1)]]} :
         IF IsNone(arr) \/ nbytes(Val(arr)) > readers[r].max_memory_size
         THEN \* reading raised, or MAX MEMORY REACHED
              /\ readers' = dead
              /\ UNCHANGED <<shm, shm_created, pending_update>>
         ELSE \* while memory_limit.value + nbytes > max_memory_size and not out_queue.empty()
              /\ ~(memory_limit + nbytes(Val(arr)) > readers[r].max_memory_size
                   /\ out_queue # <<>>)
              /\ IF nbytes(Val(arr)) = 0
                 THEN \* SharedMemory(create=True, size=0) raises ValueError
                      /\ readers' = dead
                      /\ UNCHANGED <<shm, shm_created, pending_update>>
                 ELSE IF Val(arr).dtype = "O"
                 THEN \* np.ndarray(..., buffer=...) refuses an object dtype: the
                      \* segment exists and the process dies
                      /\ readers' = dead
                      /\ shm' = Put(shm, shm_created + 1, Val(arr))
                      /\ shm_created' = shm_created + 1
                      /\ UNCHANGED pending_update
                 ELSE /\ shm' = Put(shm, shm_created + 1, Val(arr))
                      /\ shm_created' = shm_created + 1
                      /\ pending_update' = Put(pending_update, r, nbytes(Val(arr)))
                      /\ readers' = [readers EXCEPT ![r] = [@ EXCEPT !.staged =
                           Some([i |-> Val(readers[r].file)[1],
                                 var_path |-> Val(preprocess).var_info[readers[r].k][1],
                                 shape |-> Val(arr).shape,
                                 name |-> shm_created + 1])]]
  /\ UNCHANGED service_vars
  /\ UNCHANGED <<original_input_files, process_count, cpu, pc, error, input_files, opened,
                 preprocess, merged_dataset, in_queue, out_queue, memory_limit, processes,
                 processed_variables, writer_item, lock, counter_read>>
  /\ UNCHANGED pre_vars

\* _run_worker of merge_worker, line 224: out_queue.put, once the counter is updated
ReaderPost(r) ==
  /\ ~Has(pending_update, r)
  /\ ReaderPut(r)

\* _run_multi_core of merge_worker, line 144: out_queue.get_nowait() gives a buffer
WriterGet ==
  /\ pc = "merge_multi"
  /\ processed_variables < total_variables
  /\ IsNone(writer_item)
  /\ out_queue # <<>>
  /\ writer_item' = Some(Head(out_queue))
  /\ out_queue' = Tail(out_queue)
  /\ UNCHANGED service_vars
  /\ UNCHANGED <<original_input_files, process_count, cpu, pc, error, input_files, opened,
                 preprocess, merged_dataset, in_queue, memory_limit, readers, processes, shm,
                 shm_created, processed_variables, lock, pending_update, counter_read>>
  /\ UNCHANGED pre_vars

\* _run_multi_core of merge_worker, lines 149-156: the buffer is read as an
\* array of the variable's datatype, written at its subset index and
\* unlinked; the counter is still to be updated
WriterStore ==
  /\ pc = "merge_multi"
  /\ ~IsNone(writer_item)
  /\ ~Has(pending_update, Writer)
  /\ LET item == Val(writer_item)
         ds == Val(merged_dataset)
         var_meta == Get(Val(preprocess).var_info, item.var_path)
         segment == Get(shm, item.name)
         size == ItemSize(var_meta.datatype) * Prod(item.shape)
         written == IF size > nbytes(segment) THEN None
                    ELSE write_slab(Get(ds.variables, item.var_path), item.i,
                                    Reinterpret(segment, var_meta.datatype))
     IN  IF IsNone(written)
         THEN \* np.ndarray: buffer too small, or the assignment raises
              /\ pc' = "failed"
              /\ error' = Some("Error: writer")
              /\ writer_item' = None
              /\ UNCHANGED <<merged_dataset, shm, pending_update>>
         ELSE /\ merged_dataset' =
                   Some([ds EXCEPT !.variables = Put(@, item.var_path, Val(written))])
              /\ shm' = Del(shm, item.name)
              /\ pending_update' = Put(pending_update, Writer, 0 - size)
              /\ UNCHANGED <<pc, error, writer_item>>
  /\ UNCHANGED service_vars
  /\ UNCHANGED <<original_input_files, process_count, cpu, input_files, opened, preprocess,
                 in_queue, out_queue, memory_limit, readers, processes, shm_created,
                 processed_variables, lock, counter_read>>
  /\ UNCHANGED pre_vars

\* `with lock:` entered without waiting for the lock
LockAcquire_without_waiting(p) ==
  /\ pc = "merge_multi"
  /\ Has(pending_update, p)
  /\ p \notin lock
  /\ lock' = lock \cup {p}
  /\ UNCHANGED service_vars
  /\ UNCHANGED <<original_input_files, process_count, cpu, pc, error, input_files, opened,
                 preprocess, merged_dataset, in_queue, out_queue, memory_limit, readers,
                 processes, shm, shm_created, processed_variables, writer_item,
                 pending_update, counter_read>>
  /\ UNCHANGED pre_vars

\* `with lock:` of lines 157 and 221: the process gets the lock once it is free
LockAcquire(p) ==
  /\ pc = "merge_multi"
  /\ Has(pending_update, p)
  /\ lock = {}
  /\ lock' = lock \cup {p}
  /\ UNCHANGED service_vars
  /\ UNCHANGED <<original_input_files, process_count, cpu, pc, error, input_files, opened,
                 preprocess, merged_dataset, in_queue, out_queue, memory_limit, readers,
                 processes, shm, shm_created, processed_variables, writer_item,
                 pending_update, counter_read>>
  /\ UNCHANGED pre_vars

\* the right-hand side of lines 158 and 222: memory_limit.value is read
CounterRead(p) ==
  /\ pc = "merge_multi"
  /\ p \in lock
  /\ ~Has(counter_read, p)
  /\ counter_read' = Put(counter_read, p, memory_limit)
  /\ UNCHANGED service_vars
  /\ UNCHANGED <<original_input_files, process_count, cpu, pc, error, input_files, opened,
                 preprocess, merged_dataset, in_queue, out_queue, memory_limit, readers,
                 processes, shm, shm_created, processed_variables, writer_item, lock,
                 pending_update>>
  /\ UNCHANGED pre_vars

\* the assignment of lines 158 and 222 and the end of `with lock:`; the writer
\* then counts the buffer as processed (line 159)
CounterWrite(p) ==
  /\ pc = "merge_multi"
  /\ p \in lock
  /\ Has(counter_read, p)
  /\ memory_limit' = Get(counter_read, p) + Get(pending_update, p)
  /\ lock' = lock \ {p}
  /\ counter_read' = Del(counter_read, p)
  /\ pending_update' = Del(pending_update, p)
  /\ IF p = Writer
     THEN /\ processed_variables' = processed_variables + 1
          /\ writer_item' = None
     ELSE UNCHANGED <<processed_variables, writer_item>>
  /\ UNCHANGED service_vars
  /\ UNCHANGED <<original_input_files, process_count, cpu, pc, error, input_files, opened,
                 preprocess, merged_dataset, in_queue, out_queue, readers, processes, shm,
                 shm_created>>
  /\ UNCHANGED pre_vars

\* the poll of the writer with a _check_exit that never raises
WriterPoll_passing_over_exitcode ==
  /\ IsNone(writer_item)
  /\ WriterCheckExit_ignoring_exitcode

\* _run_multi_core of merge_worker, lines 145-147: the writer, holding no
\* buffer, finds the output queue empty and calls _check_exit
WriterPoll ==
  /\ IsNone(writer_item)
  /\ WriterCheckExit

\* the processes that update the counter: the writer and the readers
Updaters == {Writer} \cup DOMAIN readers

NextMergeSteps ==
  \/ CheckProcessCount
  \/ FilterInputs
  \/ PreprocessSingleCore
  \/ PreprocessStart
  \/ \E w \in DOMAIN pre_workers : PreWorkerVisit(w)
  \/ \E w \in DOMAIN pre_workers : PreWorkerExit(w)
  \/ PreprocessJoinFailed
  \/ PreprocessMergeResults
  \/ InitDataset
  \/ MergeSingleCore
  \/ MergeStart
  \/ \E r \in DOMAIN readers : ReaderTake(r)
  \/ \E r \in DOMAIN readers : ReaderExit(r)
  \/ \E r \in DOMAIN readers : ReaderCreate(r)
  \/ \E r \in DOMAIN readers : ReaderPost(r)
  \/ \E p \in Updaters : LockAcquire(p)
  \/ \E p \in Updaters : CounterRead(p)
  \/ \E p \in Updaters : CounterWrite(p)
  \/ WriterGet
  \/ WriterStore
  \/ WriterPoll
  \/ WriterJoin
  \/ Finalize

\* merge_netcdf_files with the multi-worker merge taken call by call
SpecMergeSteps == Init /\ [][NextMergeSteps]_vars

\* -------------------------------------- the merge under fair scheduling
\* _run_worker as one process: every call of the reader r
ReaderProcess(r) ==
  \/ ReaderTake(r)
  \/ ReaderExit(r)
  \/ ReaderCreate(r)
  \/ ReaderPost(r)
  \/ LockAcquire(r)
  \/ CounterRead(r)
  \/ CounterWrite(r)

\* the loop of _run_multi_core and its joins as one process: every call of
\* the writer.  A poll that finds the queue empty and no process exited
\* changes nothing and is no step.
WriterProcess ==
  \/ WriterGet
  \/ WriterStore
  \/ WriterPoll
  \/ WriterJoin
  \/ LockAcquire(Writer)
  \/ CounterRead(Writer)
  \/ CounterWrite(Writer)

\* the calls of merge_netcdf_files that are followed to their end
FairInputs ==
  { <<File("a1.nc")>>,
    <<File("a1.nc"), File("a2.nc")>>,
    <<File("a1.nc"), File("d1.nc")>>,
    <<File("d1.nc"), File("a1.nc")>> }

InitFair ==
  /\ Init
  /\ original_input_files \in FairInputs
  /\ process_count \in {Some(1), Some(2)}

\* merge_netcdf_files where the operating system runs every process that can
\* run: the writer and each reader take a step that stays possible
SpecMergeFair ==
  /\ InitFair
  /\ [][NextMergeSteps]_vars
  /\ WF_vars(WriterProcess)
  /\ \A r \in 1 .. (MergeProcessCount - 1) : WF_vars(ReaderProcess(r))

\* ------------------------------------------------- the service at work
\* process_catalog is called with a catalog of items; merge_netcdf_files has
\* not been called
InitService ==
  /\ original_input_files = <<>>
  /\ process_count = None
  /\ cpu \in 1 .. MaxProcessCount
  /\ pc = "start"
  /\ error = None
  /\ input_files = <<>>
  /\ opened = [filter |-> {}, preprocess |-> {}, merge |-> {}]
  /\ pre_in_queue = <<>>
  /\ pre_workers = NoWorkers
  /\ results = <<>>
  /\ preprocess = None
  /\ merged_dataset = None
  /\ in_queue = <<>>
  /\ out_queue = <<>>
  /\ memory_limit = 0
  /\ readers = <<>>
  /\ processes = <<>>
  /\ shm = <<>>
  /\ shm_created = 0
  /\ processed_variables = 0
  /\ writer_item = None
  /\ lock = {}
  /\ pending_update = <<>>
  /\ counter_read = <<>>
  /\ service_pc = "start"
  /\ items \in ItemLists(MaxItems)
  /\ bbox = <<>>
  /\ granule_urls = <<>>
  /\ datetimes = <<DatetimeMax, DatetimeMin>>
  /\ url_queue = <<>>
  /\ path_list = <<>>
  /\ download_processes = <<>>
  /\ downloads = <<>>
  /\ service_result = None
  /\ service_error = None

\* process_catalog, lines 93-120 and the except clause: the quick return for a
\* catalog without items, else the loop over the items
ProcessMetadata ==
  /\ service_pc = "start"
  /\ IF Len(items) = 0
     THEN /\ service_pc' = "returned"
          /\ service_result' = Some(<<>>)
          /\ UNCHANGED <<bbox, granule_urls, datetimes, service_error>>
     ELSE \E m \in {process_metadata(items, 1, EmptyMetadata)} :
            /\ bbox' = m.bbox
            /\ granule_urls' = m.granule_urls
            /\ datetimes' = m.datetimes
            /\ service_result' = None
            /\ IF IsNone(m.raised)
               THEN /\ service_pc' = "download"
                    /\ service_error' = None
               ELSE /\ service_pc' = "raised"
                    /\ service_error' = Some(ConciseException(Val(m.raised)))
  /\ UNCHANGED <<items, url_queue, path_list, download_processes, downloads>>
  /\ UNCHANGED step_vars
  /\ UNCHANGED <<original_input_files, process_count, cpu, pc, error, input_files, opened,
                 preprocess, merged_dataset>>
  /\ UNCHANGED pre_vars
  /\ UNCHANGED merge_vars

\* multi_core_download, lines 40-55: the queue is filled and cpu_count()
\* workers are started
DownloadStart ==
  /\ service_pc = "download"
  /\ url_queue' = granule_urls
  /\ path_list' = <<>>
  /\ download_processes' = [w \in 1 .. cpu |-> [state |-> "running", exitcode |-> None, url |-> None]]
  /\ service_pc' = "download_join"
  /\ UNCHANGED <<items, bbox, granule_urls, datetimes, downloads, service_result, service_error>>
  /\ UNCHANGED step_vars
  /\ UNCHANGED <<original_input_files, process_count, cpu, pc, error, input_files, opened,
                 preprocess, merged_dataset>>
  /\ UNCHANGED pre_vars
  /\ UNCHANGED merge_vars

\* _download_worker, lines 92-96 with the queue left as it is
DownloadWorkerTake_peeking(w) ==
  /\ service_pc = "download_join"
  /\ download_processes[w].state = "running"
  /\ IsNone(download_processes[w].url)
  /\ url_queue # <<>>
  /\ download_processes' = [download_processes EXCEPT ![w].url = Some(Head(url_queue))]
  /\ url_queue' = url_queue
  /\ UNCHANGED <<service_pc, items, bbox, granule_urls, datetimes, path_list, downloads,
                 service_result, service_error>>
  /\ UNCHANGED step_vars
  /\ UNCHANGED <<original_input_files, process_count, cpu, pc, error, input_files, opened,
                 preprocess, merged_dataset>>
  /\ UNCHANGED pre_vars
  /\ UNCHANGED merge_vars

\* _download_worker, lines 92-96: a URL is taken from the queue
DownloadWorkerTake(w) ==
  /\ service_pc = "download_join"
  /\ download_processes[w].state = "running"
  /\ IsNone(download_processes[w].url)
  /\ url_queue # <<>>
  /\ download_processes' = [download_processes EXCEPT ![w].url = Some(Head(url_queue))]
  /\ url_queue' = Tail(url_queue)
  /\ UNCHANGED <<service_pc, items, bbox, granule_urls, datetimes, path_list, downloads,
                 service_result, service_error>>
  /\ UNCHANGED step_vars
  /\ UNCHANGED <<original_input_files, process_count, cpu, pc, error, input_files, opened,
                 preprocess, merged_dataset>>
  /\ UNCHANGED pre_vars
  /\ UNCHANGED merge_vars

\* _download_worker, lines 98-108: the URL is downloaded and the file is given
\* the name found in the URL; a download that fails, or a name that points
\* into a directory that does not exist, ends the worker with exit code 1
DownloadWorkerFetch(w) ==
  /\ service_pc = "download_join"
  /\ download_processes[w].state = "running"
  /\ ~IsNone(download_processes[w].url)
  /\ \E url \in {Val(download_processes[w].url)}, reachable \in BOOLEAN :
       IF ~reachable
       THEN /\ download_processes' = [download_processes EXCEPT
                  ![w] = [state |-> "exited", exitcode |-> Some(1), url |-> None]]
            /\ UNCHANGED <<downloads, path_list>>
       ELSE /\ downloads' = Append(downloads, url)
            /\ \E filename \in {filename_match(url)} :
                 IF IsNone(filename)
                 THEN /\ path_list' = Append(path_list, download(url))
                      /\ download_processes' = [download_processes EXCEPT ![w].url = None]
                 ELSE IF "/" \in Range(Val(filename))
                 THEN /\ path_list' = path_list
                      /\ download_processes' = [download_processes EXCEPT
                            ![w] = [state |-> "exited", exitcode |-> Some(1), url |-> None]]
                 ELSE /\ path_list' = Append(path_list, destination_dir \o <<"/">> \o Val(filename))
                      /\ download_processes' = [download_processes EXCEPT ![w].url = None]
  /\ UNCHANGED <<service_pc, items, bbox, granule_urls, datetimes, url_queue,
                 service_result, service_error>>
  /\ UNCHANGED step_vars
  /\ UNCHANGED <<original_input_files, process_count, cpu, pc, error, input_files, opened,
                 preprocess, merged_dataset>>
  /\ UNCHANGED pre_vars
  /\ UNCHANGED merge_vars

\* _download_worker, line 92: the queue is empty and the worker returns
DownloadWorkerExit(w) ==
  /\ service_pc = "download_join"
  /\ download_processes[w].state = "running"
  /\ IsNone(download_processes[w].url)
  /\ url_queue = <<>>
  /\ download_processes' = [download_processes EXCEPT
        ![w] = [state |-> "exited", exitcode |-> Some(0), url |-> None]]
  /\ UNCHANGED <<service_pc, items, bbox, granule_urls, datetimes, url_queue, path_list,
                 downloads, service_result, service_error>>
  /\ UNCHANGED step_vars
  /\ UNCHANGED <<original_input_files, process_count, cpu, pc, error, input_files, opened,
                 preprocess, merged_dataset>>
  /\ UNCHANGED pre_vars
  /\ UNCHANGED merge_vars

\* the first process, in the order of the join loop, that is still running or
\* has a non-zero exit code; 0 when every process exited with 0
FirstNotClean ==
  LET bad == {w \in DOMAIN download_processes :
                \/ download_processes[w].state = "running"
                \/ download_processes[w].exitcode # Some(0)}
  IN  IF bad = {} THEN 0 ELSE Min(bad)

\* multi_core_download, lines 58-67, without the look at process.exitcode
DownloadJoin_ignoring_exitcode ==
  /\ service_pc = "download_join"
  /\ \A w \in DOMAIN download_processes : download_processes[w].state = "exited"
  /\ service_pc' = "merge"
  /\ service_error' = None
  /\ UNCHANGED <<items, bbox, granule_urls, datetimes, url_queue, path_list,
                 download_processes, downloads, service_result>>
  /\ UNCHANGED step_vars
  /\ UNCHANGED <<original_input_files, process_count, cpu, pc, error, input_files, opened,
                 preprocess, merged_dataset>>
  /\ UNCHANGED pre_vars
  /\ UNCHANGED merge_vars

\* multi_core_download, lines 58-67: the processes are joined in the order
\* they were started; the first non-zero exit code raises, and the paths are
\* returned once every process was joined
DownloadJoin ==
  /\ service_pc = "download_join"
  /\ IF FirstNotClean = 0
     THEN /\ service_pc' = "merge"
          /\ service_error' = None
     ELSE /\ download_processes[FirstNotClean].state = "exited"
          /\ service_pc' = "raised"
          /\ service_error' = Some(ConciseException(Called(
               Exception("RuntimeError", "Download failed - exit code: 1",
                         << <<"download_worker.py", 61, "multi_core_download">> >>), 131)))
  /\ UNCHANGED <<items, bbox, granule_urls, datetimes, url_queue, path_list,
                 download_processes, downloads, service_result>>
  /\ UNCHANGED step_vars
  /\ UNCHANGED <<original_input_files, process_count, cpu, pc, error, input_files, opened,
                 preprocess, merged_dataset>>
  /\ UNCHANGED pre_vars
  /\ UNCHANGED merge_vars

\* process_catalog, line 135: merge_netcdf_files(input_files, output_path,
\* granule_urls, logger=self.logger) gives the parameter `logger` of
\* merge_netcdf_files (merge.py, line 27) both its third positional argument
\* and a keyword; Python refuses the call before merge_netcdf_files is
\* entered, so lines 136-150 are not reached
CallMerge ==
  /\ service_pc = "merge"
  /\ service_pc' = "raised"
  /\ service_error' = Some(ConciseException(
       Exception("TypeError", "merge_netcdf_files() got multiple values for argument 'logger'",
                 << <<"service.py", 135, "process_catalog">> >>)))
  /\ UNCHANGED <<items, bbox, granule_urls, datetimes, url_queue, path_list,
                 download_processes, downloads, service_result>>
  /\ UNCHANGED step_vars
  /\ UNCHANGED <<original_input_files, process_count, cpu, pc, error, input_files, opened,
                 preprocess, merged_dataset>>
  /\ UNCHANGED pre_vars
  /\ UNCHANGED merge_vars

NextService ==
  \/ ProcessMetadata
  \/ DownloadStart
  \/ \E w \in DOMAIN download_processes : DownloadWorkerTake(w)
  \/ \E w \in DOMAIN download_processes : DownloadWorkerFetch(w)
  \/ \E w \in DOMAIN download_processes : DownloadWorkerExit(w)
  \/ DownloadJoin
  \/ CallMerge

\* process_catalog on a catalog of items
SpecService == InitService /\ [][NextService]_vars

\* =============================================================== properties
\* What the properties below speak about: the stored variables of a granule,
\* the retained inputs and the output of a completed run.

\* the variables of a dataset: <<g, v>> is variable v of group g
StoredVars(ds) == UNION {{<<g, v>> : v \in DOMAIN ds[g].variables} : g \in DOMAIN ds}
StoredVar(ds, gv) == ds[gv[1]].variables[gv[2]]
StoredVarPath(ds, gv) == get_group_path(ds[gv[1]].path, StoredVar(ds, gv).name)
StoredVarShape(ds, gv) == VarShape(ds, ds[gv[1]].path, StoredVar(ds, gv))
VarPaths(ds) == {StoredVarPath(ds, gv) : gv \in StoredVars(ds)}

\* every variable of every group of the granule has no element
AllVariablesEmpty(ds) == \A gv \in StoredVars(ds) : Prod(StoredVarShape(ds, gv)) = 0

\* the emptiness filter has run
Filtered ==
  /\ pc \notin {"start", "filter"}
  /\ error # Some("RuntimeError: process_count should be > 0")

\* the file name of a path of the catalog: its last token
Leaf(path) == <<path[Len(path)]>>

\* an index lies inside a shape
Inside(idx, shape) ==
  Len(idx) = Len(shape) /\ \A j \in DOMAIN idx : idx[j] >= 0 /\ idx[j] < shape[j]

\* the errors that leave run_merge
MergeErrors ==
  {Some("Error: _run_single_core"), Some("Error: writer"), Some("RuntimeError: Merging failed")}

\* C1: after merge_netcdf_files completes, for every retained input i and
\* every variable present in input i, the output variable at subset index i,
\* restricted to the input variable's shape, equals the input's payload cell
\* for cell (process_count = 1 and process_count >= 2).
C1_PayloadPreserved ==
  pc = "done" =>
    \A i \in DOMAIN input_files :
      \A gv \in StoredVars(nc_Dataset(input_files[i])) :
        LET ds == nc_Dataset(input_files[i])
            var_path == StoredVarPath(ds, gv)
            out == Val(merged_dataset).variables
        IN  /\ Has(out, var_path)
            /\ \A idx \in Indices(StoredVarShape(ds, gv)) :
                 /\ idx \in DOMAIN Get(out, var_path).data[i - 1]
                 /\ Get(out, var_path).data[i - 1][idx] = StoredVar(ds, gv).data[idx]

\* C2: for every retained input i and every variable present in it, every
\* output cell at subset index i outside the input variable's shape equals the
\* variable's fill value, or 0 when it has none; padding is at the high end
\* only, so input cell [k1..kn] lands at output cell [i, k1..kn].
C2_HighSidePadding ==
  pc = "done" =>
    \A i \in DOMAIN input_files :
      \A gv \in StoredVars(nc_Dataset(input_files[i])) :
        LET ds == nc_Dataset(input_files[i])
            var_path == StoredVarPath(ds, gv)
            out == Val(merged_dataset).variables
            info == Get(Val(preprocess).var_info, var_path)
            fill == IF IsNone(info.fill_value) THEN 0 ELSE Val(info.fill_value).v
        IN  Has(out, var_path) =>
              \A idx \in DOMAIN Get(out, var_path).data[i - 1] :
                Get(out, var_path).data[i - 1][idx] =
                  IF Inside(idx, StoredVarShape(ds, gv)) THEN StoredVar(ds, gv).data[idx]
                  ELSE fill

\* the retained input i (1-based here) holds no variable at var_path
Lacks(i, var_path) ==
  LET ds == nc_Dataset(input_files[i])
      where == resolve_group(ds, var_path)
  IN  ~where.found \/ ~HasVariable(GroupAt(ds, where.group), where.name)

\* the sizes the output gives the dimensions of the variable at var_path
ResolvedShape(var_path, info) ==
  [j \in DOMAIN info.dim_order |->
     Val(resolve_dim(Val(preprocess).max_dims, info.group_path, info.dim_order[j]))]

\* C3: if a retained input j lacks a variable of the unified var_info (in the
\* root or a nested group, with root-scoped or group-scoped dimensions, with
\* or without a fill value), the merge does not fail and output[v][j, :] is a
\* full-shape slab whose every cell is the fill value, or 0 when there is
\* none; in single-worker and in multi-worker mode.
C3_MissingVariableFilled ==
  ~IsNone(preprocess) =>
    \A i \in DOMAIN input_files :
      \A k \in DOMAIN Val(preprocess).var_info :
        LET var_path == Val(preprocess).var_info[k][1]
            info == Val(preprocess).var_info[k][2]
            fill == IF IsNone(info.fill_value) THEN 0 ELSE Val(info.fill_value).v
        IN  Lacks(i, var_path) =>
              /\ ~(pc = "failed" /\ error \in MergeErrors)
              /\ pc = "done" =>
                   LET slab == Get(Val(merged_dataset).variables, var_path).data[i - 1]
                   IN  /\ DOMAIN slab = Indices(ResolvedShape(var_path, info))
                       /\ \A idx \in DOMAIN slab : slab[idx] = fill

\* the variable paths of all retained inputs
RetainedVarPaths == UNION {VarPaths(nc_Dataset(input_files[i])) : i \in DOMAIN input_files}

\* C4: the set of variable paths in var_info, and so the set of variables
\* created in the output, is the union of the variable paths of all retained
\* inputs, for every process_count >= 1, every distribution of the inputs
\* among the preprocess workers and every order of their results.
C4_VarInfoIsUnion ==
  /\ ~IsNone(preprocess) => KeySet(Val(preprocess).var_info) = RetainedVarPaths
  /\ pc \in {"merge", "merge_multi", "finalize", "done"} =>
       KeySet(Val(merged_dataset).variables) = RetainedVarPaths

\* two retained inputs hold a variable at the same path with unequal descriptors
MismatchedInputs ==
  \E i, j \in DOMAIN input_files :
    \E gv \in StoredVars(nc_Dataset(input_files[i])), gw \in StoredVars(nc_Dataset(input_files[j])) :
      LET di == nc_Dataset(input_files[i])
          dj == nc_Dataset(input_files[j])
      IN  /\ StoredVarPath(di, gv) = StoredVarPath(dj, gw)
          /\ VariableInfo(StoredVar(di, gv), di[gv[1]].path)
               # VariableInfo(StoredVar(dj, gw), dj[gw[1]].path)

\* C5: if a variable path appears in two retained inputs with unequal
\* descriptors, merge_netcdf_files fails during preprocessing, before the
\* output file is created or written, for every process_count >= 1 and
\* whichever preprocess worker handled which input.
C5_MismatchRejected ==
  MismatchedInputs =>
    /\ IsNone(preprocess)
    /\ IsNone(merged_dataset)
    /\ pc \in {"preprocess", "pre_join", "failed"}

\* C6: a granule is classified as empty by is_file_empty if and only if
\* every variable in every group, at any depth and in any sibling group, has
\* element count 0; a granule with a non-zero-size variable anywhere is never
\* classified as empty.
C6_EmptyIffAllVariablesEmpty ==
  Filtered =>
    \A k \in DOMAIN original_input_files :
      (original_input_files[k] \notin Range(input_files))
        <=> AllVariablesEmpty(nc_Dataset(original_input_files[k]))

\* the inputs that hold at least one element, in the order given
NonEmptyInputs ==
  SelectSeq(original_input_files, LAMBDA file : ~AllVariablesEmpty(nc_Dataset(file)))

\* C7: the retained list is the original list with the empty granules
\* removed, order unchanged; the output's subset_index dimension has size
\* N = number of non-empty inputs; empty granules are neither preprocessed
\* nor merged.
C7_RetainedAreTheNonEmpty ==
  Filtered =>
    /\ input_files = NonEmptyInputs
    /\ pc \in {"merge", "merge_multi", "finalize", "done"} =>
         Get(Val(merged_dataset).dimensions, <<"/", "subset_index">>) = Len(NonEmptyInputs)
    /\ \A file \in Range(original_input_files) :
         AllVariablesEmpty(nc_Dataset(file)) => file \notin opened.preprocess \cup opened.merge

\* the history entry the merge added: the last of the root's history_json
OutputHistoryEntry ==
  LET history == json_loads(Get(Get(Val(merged_dataset).group_attrs, Root),
                                <<"history_json">>).v)
  IN  history[Len(history)]

\* C8: in the merged output /subset_files has length N and slot i holds the
\* basename of the i-th retained input; derived_from of the history entry
\* holds the same basenames in the same order.
C8_SubsetFilesAndDerivedFrom ==
  /\ pc \in {"merge", "merge_multi", "finalize", "done"} =>
       /\ DOMAIN Val(merged_dataset).subset_files = 0 .. (Len(input_files) - 1)
       /\ \A i \in DOMAIN input_files :
            Val(merged_dataset).subset_files[i - 1] = Leaf(input_files[i])
  /\ pc = "done" =>
       OutputHistoryEntry.derived_from = [i \in DOMAIN input_files |-> Leaf(input_files[i])]

\* a completed merge of two different granules
C8_Witness ==
  /\ pc = "done"
  /\ Len(input_files) = 2
  /\ input_files[1] # input_files[2]
  /\ Val(merged_dataset).subset_files[1] = Leaf(input_files[2])

\* C9: if every input is empty (nothing is left after the emptiness filter),
\* merge_netcdf_files fails with an InvalidInput error raised before
\* preprocessing starts, and no output file is created.
C9_AllEmptyRejected ==
  Filtered /\ original_input_files # <<>> /\ input_files = <<>> =>
    /\ pc \in {"preprocess", "failed"}
    /\ pc = "failed" => error = Some("InvalidInput")
    /\ opened.preprocess = {}
    /\ IsNone(merged_dataset)

\* C10: merge_netcdf_files called with process_count <= 0 raises an error
\* before any input file is opened and before the output file is created;
\* with process_count omitted it uses the host CPU count.
C10_ProcessCountChecked ==
  /\ [](~IsNone(process_count) /\ Val(process_count) <= 0 =>
          /\ pc \in {"start", "failed"}
          /\ pc = "failed" => ~IsNone(error)
          /\ opened = [filter |-> {}, preprocess |-> {}, merge |-> {}]
          /\ IsNone(merged_dataset))
  /\ [][pc = "start" /\ IsNone(process_count) =>
          process_count' = Some(cpu) /\ pc' = "filter"]_vars

\* a call with inputs and a process_count of 0 or less has failed
C10_Witness ==
  /\ pc = "failed"
  /\ Val(process_count) <= 0
  /\ original_input_files # <<>>

\* the attributes the retained input i carries on the group at a path, and on
\* the variable at a path (none when the input has no such group or variable)
InputGroupAttrs(i, group_path) ==
  LET ds == nc_Dataset(input_files[i])
  IN  IF HasGroup(ds, group_path) THEN GroupAt(ds, group_path).attrs ELSE <<>>
InputVarAttrs(i, var_path) ==
  LET ds == nc_Dataset(input_files[i])
      where == resolve_group(ds, var_path)
  IN  IF Lacks(i, var_path) THEN <<>>
      ELSE VariableOf(GroupAt(ds, where.group), where.name).attrs

\* two attribute values are the same: same type (dtype for arrays) and same
\* value, element by element
SameTypeAndValue(x, y) == x.type = y.type /\ x.v = y.v

\* every retained input that carries the attribute has the same value for it;
\* carried(i) is the attribute dict of input i
AllCarriersAgree(attr_name, carried(_)) ==
  \A i, j \in DOMAIN input_files :
    Has(carried(i), attr_name) /\ Has(carried(j), attr_name) =>
      SameTypeAndValue(Get(carried(i), attr_name), Get(carried(j), attr_name))

\* the attribute names the merge treats as data: not the history it rewrites
\* itself, not the fill value it hands to createVariable
OrdinaryAttrNames(carried(_)) ==
  UNION {KeySet(carried(i)) : i \in DOMAIN input_files}
    \ {<<"history_json">>, <<"_FillValue">>}

\* C11: a group or variable attribute is written to the output if and only if
\* all retained inputs that carry it have equal values (same type and same
\* value, elementwise for arrays), in any order and with any worker count; an
\* attribute on which two inputs disagree is not written.
C11_WrittenIffConsistent ==
  pc = "done" =>
    /\ \A g \in KeySet(Val(merged_dataset).group_attrs) :
         LET carried(i) == InputGroupAttrs(i, g)
         IN  \A a \in OrdinaryAttrNames(carried) :
               Has(Get(Val(merged_dataset).group_attrs, g), escape(a))
                 <=> AllCarriersAgree(a, carried)
    /\ \A vp \in KeySet(Val(merged_dataset).var_attrs) :
         LET carried(i) == InputVarAttrs(i, vp)
         IN  \A a \in OrdinaryAttrNames(carried) :
               Has(Get(Val(merged_dataset).var_attrs, vp), escape(a))
                 <=> AllCarriersAgree(a, carried)

\* what clean_metadata is to leave of an attribute dict, as a set of
\* <<name, value>> pairs: the entries that are neither marked inconsistent
\* nor named _FillValue, '/' replaced by '_' in their names
ExpectedClean(metadata) ==
  {<<escape(metadata[k][1]), metadata[k][2]>> :
     k \in {j \in DOMAIN metadata : /\ ~is_marked_inconsistent(metadata[j][2])
                                    /\ metadata[j][1] # <<"_FillValue">>}}

\* C12: for every attribute map, clean_metadata completes without error and
\* leaves exactly the entries that are neither marked inconsistent nor named
\* _FillValue, with every '/' of their names replaced by '_' and their values
\* unchanged; also when an inconsistent-marked attribute has a '/' in its name.
C12_CleanMetadata ==
  /\ pc = "failed" => error # Some("KeyError: finalize")
  /\ pc = "done" =>
       /\ \A g \in KeySet(Val(merged_dataset).group_attrs) :
            Range(Get(Val(merged_dataset).group_attrs, g))
              = ExpectedClean(Get(Val(preprocess).group_metadata, g))
       /\ \A vp \in KeySet(Val(merged_dataset).var_attrs) :
            Range(Get(Val(merged_dataset).var_attrs, vp))
              = ExpectedClean(Get(Val(preprocess).var_metadata, vp))

\* a boolean false as a granule carries it: getncattr gives a numpy scalar
\* (netCDF has no boolean type), never Python's False
IsBooleanFalse(x) == x.type = "i1" /\ x.v = 0

\* the groups some retained input has
RetainedGroupPaths ==
  UNION {{nc_Dataset(input_files[i])[g].path : g \in DOMAIN nc_Dataset(input_files[i])} :
           i \in DOMAIN input_files}

\* C13: an attribute whose value is a genuine boolean false, equal in every
\* input that carries it, is not treated as inconsistent: it survives
\* preprocessing and clean_metadata and is written to the output.
C13_BooleanFalseSurvives ==
  \A g \in RetainedGroupPaths :
    LET carried(i) == InputGroupAttrs(i, g)
    IN  \A a \in OrdinaryAttrNames(carried) :
          /\ AllCarriersAgree(a, carried)
          /\ \E i \in DOMAIN input_files :
               Has(carried(i), a) /\ IsBooleanFalse(Get(carried(i), a))
          => /\ ~IsNone(preprocess) =>
                  /\ Has(Get(Val(preprocess).group_metadata, g), a)
                  /\ IsBooleanFalse(Get(Get(Val(preprocess).group_metadata, g), a))
             /\ pc = "done" =>
                  /\ Has(Get(Val(merged_dataset).group_attrs, g), escape(a))
                  /\ IsBooleanFalse(Get(Get(Val(merged_dataset).group_attrs, g), escape(a)))

\* two different granules that both carry flag = false have been merged
C13_Witness ==
  /\ pc = "done"
  /\ Len(input_files) = 2
  /\ input_files[1] # input_files[2]
  /\ \A i \in DOMAIN input_files :
       /\ Has(InputGroupAttrs(i, Root), <<"flag">>)
       /\ IsBooleanFalse(Get(InputGroupAttrs(i, Root), <<"flag">>))
  /\ Has(Get(Val(merged_dataset).group_attrs, Root), <<"flag">>)

\* the history entries of the retained input i, and of the output's root
InputHistory(i) == retrieve_history(nc_Dataset(input_files[i]))
OutputHistory ==
  json_loads(Get(Get(Val(merged_dataset).group_attrs, Root), <<"history_json">>).v)

\* how often an entry occurs in a list
Count(e, list) == Cardinality({k \in DOMAIN list : list[k] = e})

\* s can be read in t from left to right, skipping entries of t
RECURSIVE IsSubsequence(_, _)
IsSubsequence(s, t) ==
  IF s = <<>> THEN TRUE
  ELSE IF t = <<>> THEN FALSE
  ELSE IF s[1] = t[1] THEN IsSubsequence(Tail(s), Tail(t))
  ELSE IsSubsequence(s, Tail(t))

RECURSIVE SumOfLengths(_)
SumOfLengths(k) == IF k = 0 THEN 0 ELSE SumOfLengths(k - 1) + Len(InputHistory(k))

\* C14: the root history_json of the output holds every history entry of the
\* retained inputs' root history_json (each input's entries in their original
\* relative order, none dropped or duplicated) followed by exactly one new
\* entry with program 'concise', which is last; its length is the sum of the
\* inputs' history lengths plus one, in single-worker and multi-worker mode.
C14_HistoryConcatenated ==
  pc = "done" =>
    LET n == Len(OutputHistory)
        old == SubSeq(OutputHistory, 1, n - 1)
    IN  /\ n = SumOfLengths(Len(input_files)) + 1
        /\ OutputHistory[n].program = "concise"
        /\ OutputHistory[n].date_time = "now"
        /\ \A k \in DOMAIN old : old[k].date_time # "now"
        /\ \A i \in DOMAIN input_files : IsSubsequence(InputHistory(i), old)
        /\ \A e \in Range(old) :
             Count(e, old) =
               Cardinality(UNION {{<<i, k>> : k \in {j \in DOMAIN InputHistory(i) :
                                                       InputHistory(i)[j] = e}} :
                                    i \in DOMAIN input_files})

\* a multi-worker run has merged two granules with histories, the history of
\* the second input first
C14_Witness ==
  /\ pc = "done"
  /\ Val(process_count) = 2
  /\ Len(input_files) = 2
  /\ InputHistory(1) # <<>>
  /\ InputHistory(2) # <<>>
  /\ InputHistory(1) # InputHistory(2)
  /\ Len(OutputHistory) = 4
  /\ SubSeq(OutputHistory, 1, Len(InputHistory(2))) = InputHistory(2)

\* what run_preprocess returns for the retained inputs with one worker
SingleWorkerPreprocess ==
  preprocess_single_core(input_files, visit_files(input_files, 1, EmptyAcc).acc)

\* a dict of attribute dicts as a set of <<key, set of entries>>; the history,
\* whose entries the workers collect in their own order, is left out
AsMapOfMaps(d) == {<<d[k][1], Range(Del(d[k][2], <<"history_json">>))>> : k \in DOMAIN d}

\* two results of run_preprocess agree in group_list, max_dims, var_info,
\* var_metadata and group_metadata, compared as sets and maps
SamePreprocess(p, q) ==
  /\ Range(p.group_list) = Range(q.group_list)
  /\ Range(p.max_dims) = Range(q.max_dims)
  /\ Range(p.var_info) = Range(q.var_info)
  /\ AsMapOfMaps(p.var_metadata) = AsMapOfMaps(q.var_metadata)
  /\ AsMapOfMaps(p.group_metadata) = AsMapOfMaps(q.group_metadata)

\* run_preprocess has failed (the output file does not exist yet)
PreprocessFailed == Filtered /\ pc = "failed" /\ IsNone(preprocess)

\* C15: for every schema-compatible set of retained inputs and every worker
\* count k >= 1, run_preprocess with k workers succeeds and returns the same
\* group_list, max_dims, var_info, var_metadata and group_metadata as with one
\* worker, whatever the assignment of inputs to workers.
C15_WorkersAgree ==
  Filtered /\ IsNone(SingleWorkerPreprocess.raised) =>
    /\ ~PreprocessFailed
    /\ ~IsNone(preprocess) => SamePreprocess(Val(preprocess), SingleWorkerPreprocess)

\* the group paths of the retained input i
InputGroupPaths(i) ==
  {nc_Dataset(input_files[i])[g].path : g \in DOMAIN nc_Dataset(input_files[i])}

\* some group is present in one retained input and absent in another
GroupTreesDiffer ==
  \E i, j \in DOMAIN input_files : InputGroupPaths(i) # InputGroupPaths(j)

\* C16: for retained inputs whose group trees differ and any worker count,
\* preprocessing succeeds and group_list is the sorted, duplicate-free union of
\* all group paths seen in any input, always containing '/'; every such group
\* exists in the output.
C16_GroupListIsUnion ==
  Filtered /\ GroupTreesDiffer =>
    /\ ~PreprocessFailed
    /\ ~IsNone(preprocess) =>
         LET group_list == Val(preprocess).group_list
         IN  /\ Range(group_list) = RetainedGroupPaths
             /\ Len(group_list) = Cardinality(RetainedGroupPaths)
             /\ \A k \in 1 .. (Len(group_list) - 1) : TextLess(group_list[k], group_list[k + 1])
             /\ Root \in Range(group_list)
    /\ pc \in {"merge", "merge_multi", "finalize", "done"} =>
         RetainedGroupPaths \subseteq Range(Val(merged_dataset).groups)

\* the last steps of a single-worker run: the payloads are copied into the
\* initialized dataset ds and the cleaned attributes are written.  None when
\* a step raises.
SingleWorkerFinalized(p, ds, variables) ==
  IF IsNone(variables) THEN None
  ELSE LET merged == [ds EXCEPT !.variables = Val(variables)]
           group_attrs == cleaned_attrs(p.group_list, p.group_metadata, 1, <<>>)
           var_attrs == cleaned_attrs(OutputVarPaths(merged, p.group_list), p.var_metadata,
                                      1, <<>>)
       IN  IF IsNone(group_attrs) \/ IsNone(var_attrs) THEN None
           ELSE Some([merged EXCEPT !.group_attrs = Val(group_attrs),
                                    !.var_attrs = Val(var_attrs),
                                    !.closed = TRUE])

SingleWorkerMerged(p, init) ==
  IF ~IsNone(init.raised) THEN None
  ELSE SingleWorkerFinalized(p, Val(init.dataset),
         merge_single_core(Some(Val(init.dataset).variables), input_files,
                           p.var_info, p.max_dims, 0).variables)

\* the output merge_netcdf_files produces for the retained inputs with
\* process_count = 1, None when that run fails
SingleWorkerOutputOf(p) ==
  IF ~IsNone(p.raised) THEN None
  ELSE SingleWorkerMerged(p, init_dataset(p.group_list, p.var_info, p.max_dims, input_files))

SingleWorkerOutput == SingleWorkerOutputOf(SingleWorkerPreprocess)

\* a dict of attribute dicts as a set of <<key, set of entries>>
AsAttrMaps(d) == {<<d[k][1], Range(d[k][2])>> : k \in DOMAIN d}

\* two outputs agree in every group, dimension, variable (descriptor and
\* payload), attribute and subset_files entry
SameOutput(a, b) ==
  /\ Range(a.groups) = Range(b.groups)
  /\ Range(a.dimensions) = Range(b.dimensions)
  /\ a.subset_files = b.subset_files
  /\ Range(a.variables) = Range(b.variables)
  /\ AsAttrMaps(a.group_attrs) = AsAttrMaps(b.group_attrs)
  /\ AsAttrMaps(a.var_attrs) = AsAttrMaps(b.var_attrs)

\* C17: for the same retained inputs, the output produced with process_count
\* = 1 and the output produced with any process_count >= 2 are identical in
\* every dimension, variable payload, attribute and subset_files entry (the
\* date_time of the new history entry aside), also when some variable is
\* missing from some input.
C17_SingleAndMultiAgree ==
  pc = "done" /\ Val(process_count) >= 2 /\ ~IsNone(SingleWorkerOutput) =>
    SameOutput(Val(merged_dataset), Val(SingleWorkerOutput))

\* C18: if any reader process of the multi-worker merge exits with a non-zero
\* exit code at any point of its run (also after it has posted its last
\* buffer), run_merge raises a MergeFailed error and never returns normally.
C18_ReaderFailurePropagates ==
  (\E r \in DOMAIN readers : readers[r].exitcode = Some(1)) =>
    pc \notin {"finalize", "done"}

\* the reader r holds a file and the resized array of its next variable is
\* larger than the shared-memory budget
Oversized(r) ==
  /\ pc \in {"merge_multi", "failed"}
  /\ ~IsNone(readers[r].file)
  /\ IsNone(readers[r].staged)
  /\ ~IsNone(ReaderArray(r))
  /\ nbytes(Val(ReaderArray(r))) > readers[r].max_memory_size

\* the reader r has raised on an oversized variable
RaisedOnOversized(r) == Oversized(r) /\ readers[r].exitcode = Some(1)

\* C19: if the resized array of a single variable is larger than the
\* shared-memory budget, the reader raises without allocating a segment for
\* it and the whole multi-worker merge terminates with a failure: the writer
\* does not wait forever for the missing items.  Termination is stated by its
\* three parts: after the raise the writer loop cannot end normally, it always
\* has a step that changes the state, and each of its steps takes a buffer off
\* the output queue or raises.
C19_OversizedFailsFast ==
  /\ [][\A r \in DOMAIN readers :
          Oversized(r) /\ readers[r].state = "running" /\ readers'[r] # readers[r] =>
            /\ readers'[r].exitcode = Some(1)
            /\ shm' = shm
            /\ shm_created' = shm_created]_vars
  /\ []((\E r \in DOMAIN readers : RaisedOnOversized(r)) =>
          /\ pc \in {"merge_multi", "failed"}
          /\ pc = "merge_multi" =>
               /\ processed_variables < total_variables
               /\ ENABLED <<WriterWrite \/ WriterCheckExit>>_vars)
  /\ [][(\E r \in DOMAIN readers : RaisedOnOversized(r)) /\ pc = "merge_multi" =>
          \/ pc' = "failed"
          \/ Len(out_queue') < Len(out_queue)]_vars

\* a reader has raised on an oversized variable and the merge has failed
C19_Witness ==
  /\ pc = "failed"
  /\ error = Some("RuntimeError: Merging failed")
  /\ \E r \in DOMAIN readers : Oversized(r) /\ readers[r].exitcode = Some(1)

\* the reader r is held in its wait loop: the array fits the budget by
\* itself, but not with what is outstanding, and the output queue holds items
HeldBack(r) ==
  /\ pc = "merge_multi"
  /\ readers[r].state = "running"
  /\ ~IsNone(readers[r].file)
  /\ IsNone(readers[r].staged)
  /\ ~IsNone(ReaderArray(r))
  /\ nbytes(Val(ReaderArray(r))) <= readers[r].max_memory_size
  /\ memory_limit + nbytes(Val(ReaderArray(r))) > readers[r].max_memory_size
  /\ out_queue # <<>>

\* C20: in multi-worker merge a reader creates a new shared-memory segment of
\* size s only after its wait loop has observed that outstanding + s <= budget
\* or that the output queue is empty; while outstanding + s > budget and the
\* output queue is non-empty the reader allocates nothing.
C20_AllocationWaitsForRoom ==
  /\ [][shm_created' > shm_created =>
          \E r \in DOMAIN readers :
            /\ readers'[r] # readers[r]
            /\ \/ memory_limit + nbytes(Get(shm', shm_created')) <= readers[r].max_memory_size
               \/ out_queue = <<>>]_vars
  /\ [][(\E r \in DOMAIN readers : HeldBack(r)) =>
          shm_created' = shm_created /\ KeySet(shm') \subseteq KeySet(shm)]_vars

\* a reader that has staged a segment before is held back by the budget
C20_Witness ==
  /\ shm_created >= 1
  /\ memory_limit > 0
  /\ \E r \in DOMAIN readers : HeldBack(r)

\* the names of the segments the output queue holds, and those the readers
\* have created and not yet posted
QueuedNames == {out_queue[k].name : k \in DOMAIN out_queue}
StagedNames == {Val(readers[r].staged).name : r \in {q \in DOMAIN readers : ~IsNone(readers[q].staged)}}

\* the multi-worker merge has returned normally
MultiMergeReturned == pc \in {"finalize", "done"} /\ Val(process_count) # 1

\* C21: every shared-memory segment is created by exactly one reader, is
\* posted to the output queue exactly once, is read by the writer only before
\* it is unlinked, and is unlinked by the writer exactly once; no segment is
\* consumed twice, and after a normal completion of run_merge no segment
\* remains linked.  In parts: what is queued or staged is linked, and no name
\* is queued or staged twice; a segment appears by the step of one reader
\* under a name never used before; an item enters the queue from the reader
\* that staged it, which lets go of it; a segment is unlinked only by the
\* writer step that takes it from the head of the queue, and each item the
\* writer takes and writes is unlinked by that step; when the merge has
\* returned, every segment ever created has been written and unlinked.
C21_SegmentLifecycle ==
  /\ [](/\ QueuedNames \cup StagedNames \subseteq KeySet(shm)
        /\ KeySet(shm) \subseteq 1 .. shm_created
        /\ QueuedNames \cap StagedNames = {}
        /\ \A j, k \in DOMAIN out_queue : out_queue[j].name = out_queue[k].name => j = k
        /\ \A q, r \in DOMAIN readers :
             ~IsNone(readers[q].staged) /\ readers[q].staged = readers[r].staged => q = r
        /\ MultiMergeReturned =>
             /\ shm = <<>>
             /\ out_queue = <<>>
             /\ StagedNames = {}
             /\ shm_created = processed_variables)
  /\ [][KeySet(shm') \ KeySet(shm) # {} =>
          /\ shm_created' = shm_created + 1
          /\ KeySet(shm') = KeySet(shm) \cup {shm_created'}
          /\ Cardinality({r \in DOMAIN readers : readers'[r] # readers[r]}) = 1
          /\ UNCHANGED <<out_queue, processed_variables>>]_vars
  /\ [][Len(out_queue') > Len(out_queue) =>
          /\ shm' = shm
          /\ \E r \in DOMAIN readers :
               /\ ~IsNone(readers[r].staged)
               /\ out_queue' = Append(out_queue, Val(readers[r].staged))
               /\ IsNone(readers'[r].staged)]_vars
  /\ [][KeySet(shm) \ KeySet(shm') # {} =>
          /\ out_queue # <<>>
          /\ KeySet(shm') = KeySet(shm) \ {Head(out_queue).name}
          /\ out_queue' = Tail(out_queue)
          /\ processed_variables' = processed_variables + 1
          /\ UNCHANGED <<readers, shm_created>>]_vars
  /\ [][Len(out_queue') < Len(out_queue) =>
          /\ out_queue' = Tail(out_queue)
          /\ pc' = "failed" \/ ~Has(shm', Head(out_queue).name)]_vars

\* a multi-worker merge has completed after at least two segments went from
\* a reader to the writer
C21_Witness ==
  /\ pc = "done"
  /\ Val(process_count) # 1
  /\ shm_created >= 2
  /\ processed_variables = shm_created
  /\ shm = <<>>

\* the multi-worker merge is running, or has returned normally
InMultiMerge == pc = "merge_multi" \/ MultiMergeReturned

\* every (subset index, variable path) the merge has to write
AllPairs ==
  {<<i, vp>> : i \in 0 .. (Len(input_files) - 1), vp \in KeySet(Val(preprocess).var_info)}

\* the pairs the reader r still has to post for the file it holds
HeldPairs(r) ==
  IF IsNone(readers[r].file) THEN {}
  ELSE {<<Val(readers[r].file)[1], Val(preprocess).var_info[m][1]>> :
          m \in readers[r].k .. Len(Val(preprocess).var_info)}

\* the pairs not written yet: those of the files in the input queue, those
\* the readers hold and those in the output queue
PendingPairs ==
  UNION {{<<in_queue[j][1], vp>> : vp \in KeySet(Val(preprocess).var_info)} : j \in DOMAIN in_queue}
    \cup UNION {HeldPairs(r) : r \in DOMAIN readers}
    \cup {<<out_queue[k].i, out_queue[k].var_path>> : k \in DOMAIN out_queue}

\* how many items the three places hold
RECURSIVE HeldCount(_)
HeldCount(r) ==
  IF r = 0 THEN 0 ELSE HeldCount(r - 1) + Cardinality(HeldPairs(r))

PendingCount ==
  Len(in_queue) * Len(Val(preprocess).var_info) + HeldCount(Len(readers)) + Len(out_queue)

\* C22: in multi-worker merge, when the writer leaves its loop normally, every
\* pair (i, var_path) with i a retained input index and var_path in var_info
\* has been written to the output exactly once, so processed_variables equals
\* len(retained_inputs) * len(var_info); no pair is written twice, none is
\* skipped, and every input index was taken from the input queue by exactly
\* one reader.  In parts: the pairs not yet written are held once each in the
\* input queue, by a reader or in the output queue, and together with the
\* written ones they are all the pairs; a pair that has left these places
\* never comes back; each step of the writer that counts writes the pair at
\* the head of the output queue, to its own variable only; a file leaves the
\* input queue into the hands of one reader; when the count reaches the
\* total, nothing is pending.
C22_EveryPairWrittenOnce ==
  /\ [](InMultiMerge =>
          /\ PendingPairs \subseteq AllPairs
          /\ Cardinality(PendingPairs) = PendingCount
          /\ processed_variables + PendingCount = total_variables
          /\ \A r \in DOMAIN readers :
               ~IsNone(readers[r].staged) =>
                 /\ ~IsNone(readers[r].file)
                 /\ Val(readers[r].staged).i = Val(readers[r].file)[1]
                 /\ Val(readers[r].staged).var_path = Val(preprocess).var_info[readers[r].k][1]
          /\ processed_variables >= total_variables =>
               /\ processed_variables = Len(input_files) * Len(Val(preprocess).var_info)
               /\ PendingPairs = {}
               /\ in_queue = <<>>
               /\ \A r \in DOMAIN readers : IsNone(readers[r].file))
  /\ [][pc = "merge_multi" /\ pc' \in {"merge_multi", "finalize"} =>
          PendingPairs' \subseteq PendingPairs]_vars
  /\ [][pc = "merge_multi" /\ processed_variables' # processed_variables =>
          /\ out_queue # <<>>
          /\ processed_variables' = processed_variables + 1
          /\ PendingPairs \ PendingPairs' = {<<Head(out_queue).i, Head(out_queue).var_path>>}
          /\ \A vp \in KeySet(Val(merged_dataset).variables) \ {Head(out_queue).var_path} :
               Get(Val(merged_dataset').variables, vp) = Get(Val(merged_dataset).variables, vp)]_vars
  /\ [][pc = "merge_multi" /\ in_queue' # in_queue =>
          /\ in_queue' = Tail(in_queue)
          /\ Cardinality({r \in DOMAIN readers : readers'[r] # readers[r]}) = 1
          /\ \A r \in DOMAIN readers :
               readers'[r] # readers[r] => readers'[r].file = Some(Head(in_queue))]_vars

\* the writer has left its loop after writing the variables of two inputs
C22_Witness ==
  /\ MultiMergeReturned
  /\ Len(input_files) = 2
  /\ processed_variables = total_variables
  /\ processed_variables >= 4

\* the reader processes of the merge that have not ended
RunningReaders == {r \in DOMAIN readers : readers[r].state = "running"}

\* C23 as stated: in multi-worker mode with process_count = p >= 2, the merge
\* engine runs one writer and R = p - 1 reader processes.
C23_ReadersAreProcessCountMinusOne ==
  pc = "merge_multi" =>
    /\ Val(process_count) >= 2
    /\ Len(readers) = Val(process_count) - 1

\* C23, amended: in multi-worker mode with process_count = p >= 2, the merge
\* engine runs one writer and one reader process, whatever p is: run_merge
\* calls _run_multi_core with a process count of 2.
C23_OneWriterOneReader ==
  pc = "merge_multi" =>
    /\ Val(process_count) >= 2
    /\ Len(readers) = 1
    /\ Len(readers) = MergeProcessCount - 1
    /\ Range(processes) \subseteq DOMAIN readers

\* a merge asked for three processes runs with its one reader
C23_Witness ==
  /\ pc = "merge_multi"
  /\ Val(process_count) = 3
  /\ Len(readers) = 1
  /\ RunningReaders = {1}

\* the variables of the output that differ between two states of it
ChangedVariables(before, after) ==
  {vp \in KeySet(before.variables) \cup KeySet(after.variables) :
     ~(Has(before.variables, vp) /\ Has(after.variables, vp)
       /\ Get(before.variables, vp) = Get(after.variables, vp))}

\* C24: in every reachable state of the merge at most one process, the
\* main/writer process, writes to the output dataset; reader processes never
\* write to the output file, and no two writes to the output are in progress
\* at the same time.  In steps: a step that changes the output dataset is a
\* step of the main process (no worker or reader process moves in it); a step
\* of a reader or of a preprocess worker leaves the output as it is; while
\* the readers run, a step that changes the output is the writer taking one
\* item off the output queue and it changes one variable.
C24_SingleWriter ==
  /\ [][merged_dataset' # merged_dataset =>
          readers' = readers /\ pre_workers' = pre_workers]_vars
  /\ [][(readers' # readers /\ pc = "merge_multi") \/ pre_workers' # pre_workers =>
          merged_dataset' = merged_dataset]_vars
  /\ [][pc = "merge_multi" /\ merged_dataset' # merged_dataset =>
          /\ out_queue # <<>>
          /\ out_queue' = Tail(out_queue)
          /\ processed_variables' = processed_variables + 1
          /\ ChangedVariables(Val(merged_dataset), Val(merged_dataset')) =
               {Head(out_queue).var_path}]_vars

\* the writer has written a buffer while a reader holds the next one staged
C24_Witness ==
  /\ pc = "merge_multi"
  /\ processed_variables >= 1
  /\ Val(merged_dataset) # Val(init_dataset(Val(preprocess).group_list, Val(preprocess).var_info,
                                            Val(preprocess).max_dims, input_files).dataset)
  /\ \E r \in DOMAIN readers : readers[r].state = "running" /\ ~IsNone(readers[r].staged)

\* the dimensions the retained input i defines: <<dimension path, size>>
InputDims(i) ==
  LET ds == nc_Dataset(input_files[i])
  IN  UNION {{<<get_group_path(ds[g].path, ds[g].dimensions[k][1]), ds[g].dimensions[k][2]>> :
                k \in DOMAIN ds[g].dimensions} : g \in DOMAIN ds}

\* max_dims holds, for the inputs I, every dimension path one of them defines
\* with the largest size it has among them
IsMaxOver(max_dims, I) ==
  LET all == UNION {InputDims(i) : i \in I}
  IN  /\ KeySet(max_dims) = {e[1] : e \in all}
      /\ \A d \in KeySet(max_dims) : Get(max_dims, d) = Max({e[2] : e \in {x \in all : x[1] = d}})

\* every size of the first dictionary is kept or raised in the second
NotDecreased(before, after) ==
  \A d \in KeySet(before) : Has(after, d) /\ Get(before, d) <= Get(after, d)

\* max_dims after the first k retained inputs were visited by one worker
MaxDimsAfter(k) == visit_files(SubSeq(input_files, 1, k), 1, EmptyAcc).acc.max_dims

\* max_dims after the first k worker results were merged
RECURSIVE MergedMaxDims(_)
MergedMaxDims(k) ==
  IF k = 0 THEN <<>> ELSE merge_max_dims(MergedMaxDims(k - 1), results[k].max_dims)

\* C25: after preprocessing any sequence of inputs, and after merging any
\* sequence of worker results, max_dims[d] equals, for every dimension path d
\* in max_dims, the maximum size of d over the inputs that define it, hence is
\* >= its size in every input; max_dims[d] never decreases as further inputs
\* or worker results are processed.
C25_MaxDimsIsMaximum ==
  /\ [](~IsNone(preprocess) =>
          /\ IsMaxOver(Val(preprocess).max_dims, DOMAIN input_files)
          /\ \A i \in DOMAIN input_files : \A e \in InputDims(i) :
               Get(Val(preprocess).max_dims, e[1]) >= e[2])
  /\ [](pc = "preprocess" =>
          \A k \in 1 .. Len(input_files) :
            /\ NotDecreased(MaxDimsAfter(k - 1), MaxDimsAfter(k))
            /\ IsNone(visit_files(SubSeq(input_files, 1, k), 1, EmptyAcc).acc.raised) =>
                 IsMaxOver(MaxDimsAfter(k), 1 .. k))
  /\ [](\A k \in DOMAIN results :
          /\ NotDecreased(MergedMaxDims(k - 1), MergedMaxDims(k))
          /\ NotDecreased(results[k].max_dims, MergedMaxDims(k)))
  /\ [][\A w \in DOMAIN pre_workers \cap DOMAIN pre_workers' :
          NotDecreased(pre_workers[w].acc.max_dims, pre_workers'[w].acc.max_dims)]_vars

\* two inputs that disagree on the size of a dimension were preprocessed: the
\* larger size is kept although the smaller one came last
C25_Witness ==
  /\ ~IsNone(preprocess)
  /\ Len(input_files) = 2
  /\ \E e \in InputDims(1), f \in InputDims(2) :
       /\ e[1] = f[1]
       /\ e[2] > f[2]
       /\ Get(Val(preprocess).max_dims, e[1]) = e[2]

\* the same after the results of two workers were merged
C25_WitnessMerged ==
  /\ C25_Witness
  /\ Len(results) = 2

\* the group at a path and the groups above it, up to the root
AncestorsOrSelf(group_path) ==
  {Root, group_path} \cup {SubSeq(group_path, 1, k - 1) : k \in SlashAt(group_path) \ {1}}

\* dictionaries of dimensions to resolve in: every choice among a dimension
\* x defined in the root, in /a and in /a/c, and a bare key x
DimEntries ==
  << <<get_group_path(Root, <<"x">>), 1>>, <<get_group_path(GrpA, <<"x">>), 2>>,
     <<get_group_path(GrpAC, <<"x">>), 3>>, << <<"x">>, 4>> >>

PickEntries(S) ==
  LET F[k \in 0 .. Len(DimEntries)] ==
        IF k = 0 THEN <<>>
        ELSE IF k \in S THEN Append(F[k - 1], DimEntries[k]) ELSE F[k - 1]
  IN  F[Len(DimEntries)]

TestDims == {PickEntries(S) : S \in SUBSET DOMAIN DimEntries}

TestGroupPaths == {Root, GrpA, GrpB, GrpAC, GrpAC \o <<"/", "e">>}

TestDimNames == {<<"x">>, <<"y">>, <<"z">>}

\* the dictionaries resolve_dim is checked on: max_dims of the run, and the
\* dictionaries above at the point where the output is about to be laid out
ResolvedIn ==
  IF IsNone(preprocess) THEN {}
  ELSE {Val(preprocess).max_dims} \cup (IF pc = "init" THEN TestDims ELSE {})

\* what resolve_dim is to return: the size under the deepest group at or above
\* group_path that defines dim_name, else the size under the bare name, else
\* nothing (KeyError)
DeepestDefinition(dims, group_path, dim_name) ==
  LET defining == {g \in AncestorsOrSelf(group_path) : Has(dims, get_group_path(g, dim_name))}
  IN  IF defining # {}
      THEN Some(Get(dims, get_group_path(CHOOSE g \in defining :
                                           \A h \in defining : Len(h) <= Len(g), dim_name)))
      ELSE IF Has(dims, dim_name) THEN Some(Get(dims, dim_name))
      ELSE None

\* C26: resolve_dim(dims, group_path, dim_name) returns the size stored under
\* the deepest ancestor-or-self group of group_path (searching from group_path
\* up to the root) that defines dim_name; only when no such path key exists
\* does it fall back to the bare key dim_name, and it fails only when that is
\* absent too.
C26_ResolveDimDeepestFirst ==
  \A dims \in ResolvedIn, group_path \in TestGroupPaths, dim_name \in TestDimNames :
    resolve_dim(dims, group_path, dim_name) = DeepestDefinition(dims, group_path, dim_name)

\* the output is about to be laid out for a variable of group /a whose
\* dimension x is defined in the root only, and the test dictionaries hold
\* the three cases: a deeper definition hides a shallower one, the bare key
\* is used, nothing is found
C26_Witness ==
  /\ pc = "init"
  /\ \E k \in DOMAIN Val(preprocess).var_info :
       LET info == Val(preprocess).var_info[k][2]
       IN  /\ info.group_path = GrpA
           /\ info.dim_order = << <<"x">> >>
           /\ ~Has(Val(preprocess).max_dims, get_group_path(GrpA, <<"x">>))
           /\ resolve_dim(Val(preprocess).max_dims, GrpA, <<"x">>) =
                Some(Get(Val(preprocess).max_dims, get_group_path(Root, <<"x">>)))
  /\ resolve_dim(PickEntries({1, 2, 3, 4}), GrpAC \o <<"/", "e">>, <<"x">>) = Some(3)
  /\ resolve_dim(PickEntries({1, 2, 4}), GrpAC, <<"x">>) = Some(2)
  /\ resolve_dim(PickEntries({2, 3, 4}), GrpB, <<"x">>) = Some(4)
  /\ resolve_dim(PickEntries({2, 3}), Root, <<"x">>) = None

\* leaf names without a separator: the names of stored variables, a name of
\* several characters and the empty name
TestLeaves == {<<"v">>, <<"w">>, <<"t">>, <<"l", "e", "a", "f">>, <<>>}

\* '/' + leaf for the root, group.path + '/' + leaf for any other group,
\* read off the result character by character
IsPathOf(path, group_path, leaf) ==
  LET prefix == IF group_path = Root THEN <<>> ELSE group_path
  IN  /\ Len(path) = Len(prefix) + 1 + Len(leaf)
      /\ SubSeq(path, 1, Len(prefix)) = prefix
      /\ path[Len(prefix) + 1] = "/"
      /\ SubSeq(path, Len(prefix) + 2, Len(path)) = leaf

\* C27: get_group_path(g, leaf) is '/' + leaf when g is the root and
\* g.path + '/' + leaf otherwise, and resolve_group inverts it: for every
\* group g of a dataset (root, group, or nested subgroup) and every leaf name
\* without '/', resolve_group(dataset, get_group_path(g, leaf)) returns
\* (g, leaf).  Checked on every group of every file handed to the merge.
C27_ResolveGroupInvertsGetGroupPath ==
  \A i \in DOMAIN original_input_files :
    LET ds == nc_Dataset(original_input_files[i])
    IN  \A g \in DOMAIN ds : \A leaf \in TestLeaves :
          /\ IsPathOf(get_group_path(ds[g].path, leaf), ds[g].path, leaf)
          /\ resolve_group(ds, get_group_path(ds[g].path, leaf)) =
               [found |-> TRUE, group |-> ds[g].path, name |-> leaf]

\* the merge has opened a granule with a nested subgroup and resolved the
\* path of the variable stored in it
C27_Witness ==
  /\ error = None
  /\ File("e3.nc") \in opened.merge
  /\ HasGroup(nc_Dataset(File("e3.nc")), GrpAC)
  /\ Has(Val(preprocess).var_info, get_group_path(GrpAC, <<"t">>))
  /\ resolve_group(nc_Dataset(File("e3.nc")), get_group_path(GrpAC, <<"t">>)) =
       [found |-> TRUE, group |-> GrpAC, name |-> <<"t">>]

\* the attribute names an assignment is tried on: the five fields (both
\* spellings of the dimensions), the init flag and a name the object lacks
AssignedNames ==
  {"name", "dim_order", "dimensions", "datatype", "group_path", "fill_value", "init", "other"}

AssignedValues == {None, Some(0)}

\* the VariableInfo objects preprocessing has constructed when it returns:
\* one per stored variable of the retained inputs, as __init__ leaves them
ConstructedInfos ==
  IF pc # "init" THEN {}
  ELSE UNION {LET ds == nc_Dataset(input_files[i])
              IN  {VariableInfo_init(StoredVar(ds, gv), ds[gv[1]].path) : gv \in StoredVars(ds)} :
                i \in DOMAIN input_files}

\* C28: once a VariableInfo has been constructed, every attempt to assign any
\* attribute on it (name, dim_order/dimensions, datatype, group_path,
\* fill_value) raises AttributeError and leaves all of its fields unchanged.
\* Construction itself, which assigns through the same __setattr__, succeeds.
C28_VariableInfoImmutable ==
  \A made \in ConstructedInfos :
    /\ ~IsNone(made)
    /\ \A name \in AssignedNames, value \in AssignedValues :
         /\ VariableInfo_setattr(Val(made), name, value).raised
         /\ VariableInfo_setattr(Val(made), name, value).self = Val(made)

\* preprocessing has constructed the descriptor of a variable with a fill
\* value, and an assignment of None to its fill_value is refused
C28_Witness ==
  /\ pc = "init"
  /\ \E i \in DOMAIN input_files :
       LET ds == nc_Dataset(input_files[i])
       IN  \E gv \in StoredVars(ds) :
             LET made == VariableInfo_init(StoredVar(ds, gv), ds[gv[1]].path)
             IN  /\ Has(Val(preprocess).var_info, StoredVarPath(ds, gv))
                 /\ ~IsNone(made)
                 /\ ~IsNone(Get(Val(made), "fill_value"))
                 /\ Get(Val(made), "fill_value") =
                      Get(Val(preprocess).var_info, StoredVarPath(ds, gv)).fill_value
                 /\ VariableInfo_setattr(Val(made), "fill_value", None).raised

\* descriptors that differ from a descriptor of the run in one field, or in
\* the fill value only: missing, two numbers, NaN
VariantsOf(info) ==
  {info,
   [info EXCEPT !.name = <<"o", "t", "h", "e", "r">>],
   [info EXCEPT !.dim_order = <<>>],
   [info EXCEPT !.dim_order = Append(@, <<"k">>)],
   [info EXCEPT !.datatype = "f4"],
   [info EXCEPT !.datatype = "i2"],
   [info EXCEPT !.group_path = GrpB],
   [info EXCEPT !.fill_value = None],
   [info EXCEPT !.fill_value = Some(AttrVal(info.datatype, -1))],
   [info EXCEPT !.fill_value = Some(AttrVal(info.datatype, -7))],
   [info EXCEPT !.fill_value = Some(AttrVal("f4", NaN))]}

\* the descriptors compared: those preprocessing returned and their variants
ComparedInfos ==
  IF pc # "init" THEN {}
  ELSE UNION {VariantsOf(Val(preprocess).var_info[k][2]) : k \in DOMAIN Val(preprocess).var_info}

\* the same fill value: both missing, or both present with the same number,
\* NaN being the same as NaN
SameFillValue(x, y) ==
  \/ IsNone(x) /\ IsNone(y)
  \/ ~IsNone(x) /\ ~IsNone(y) /\ Val(x).v = Val(y).v

AllFiveEqual(a, b) ==
  /\ a.name = b.name
  /\ a.dim_order = b.dim_order
  /\ a.datatype = b.datatype
  /\ a.group_path = b.group_path
  /\ SameFillValue(a.fill_value, b.fill_value)

OutputShape(var) == <<Cardinality(DOMAIN var.data)>> \o var.shape

\* C30: every variable in var_info is created in the output with dimensions
\* [subset_index] + dim_order, so its shape is (N, resolve_dim(max_dims,
\* group_path, d) for each d in dim_order) with N the number of retained
\* inputs; a 0-dimensional variable gets shape [N].  Stated of the output
\* file once init_dataset has been called on it.
C30_OutputVariableShape ==
  ~IsNone(merged_dataset) =>
    \A k \in DOMAIN Val(preprocess).var_info :
      LET var_path == Val(preprocess).var_info[k][1]
          info == Val(preprocess).var_info[k][2]
          variables == Val(merged_dataset).variables
      IN  /\ Has(variables, var_path)
          /\ Get(variables, var_path).dims = << <<"subset_index">> >> \o info.dim_order
          /\ DOMAIN Get(variables, var_path).data = 0 .. (Len(input_files) - 1)
          /\ OutputShape(Get(variables, var_path)) =
               <<Len(input_files)>> \o
                 [j \in DOMAIN info.dim_order |->
                    Val(resolve_dim(Val(preprocess).max_dims, info.group_path, info.dim_order[j]))]
          /\ info.dim_order = <<>> => OutputShape(Get(variables, var_path)) = <<Len(input_files)>>
          /\ \A i \in DOMAIN Get(variables, var_path).data :
               DOMAIN Get(variables, var_path).data[i] = Indices(Get(variables, var_path).shape)

\* the list handed to the merge names one file twice, and the file holds data
SameInputTwice ==
  /\ Len(original_input_files) = 2
  /\ original_input_files[1] = original_input_files[2]
  /\ ~AllVariablesEmpty(nc_Dataset(original_input_files[1]))
  /\ Filtered

\* what preprocessing the list [f] alone returns, f the file named twice
PreprocessedAlone ==
  preprocess_single_core(<<original_input_files[1]>>,
                         visit_files(<<original_input_files[1]>>, 1, EmptyAcc).acc)

\* merge_netcdf_files has returned or raised
Ended == pc \in {"done", "failed"}

\* C31: merging the input list [f, f] yields the same var_info and max_dims
\* as preprocessing [f] alone, an output with N = 2, and for every variable
\* the slab at subset index 0 equals the slab at subset index 1.
C31_SameInputTwice ==
  SameInputTwice /\ Ended =>
    /\ pc = "done"
    /\ Val(preprocess).var_info = PreprocessedAlone.var_info
    /\ Val(preprocess).max_dims = PreprocessedAlone.max_dims
    /\ DOMAIN Val(merged_dataset).subset_files = {0, 1}
    /\ \A k \in DOMAIN Val(merged_dataset).variables :
         /\ DOMAIN Val(merged_dataset).variables[k][2].data = {0, 1}
         /\ Val(merged_dataset).variables[k][2].data[0] = Val(merged_dataset).variables[k][2].data[1]

\* ------------------------------------------------------------------- C32
\* process_catalog is past its loop over the items of a catalog that has some
MetadataDone == service_pc \notin {"idle", "start"} /\ items # <<>>

\* every item has an asset that get_granule_url accepts
AllHaveGranule == \A k \in DOMAIN items : IsNone(get_granule_url(items[k], <<>>).raised)

\* the bboxes of the items that have one
Bboxes(items_) == {Val(items_[k].bbox) : k \in {j \in DOMAIN items_ : ~IsNone(items_[j].bbox)}}

\* [min xmin, min ymin, max xmax, max ymax], nothing when no item has a bbox
EnclosingBbox(items_) ==
  IF Bboxes(items_) = {} THEN <<>>
  ELSE << Min({b[1] : b \in Bboxes(items_)}), Min({b[2] : b \in Bboxes(items_)}),
          Max({b[3] : b \in Bboxes(items_)}), Max({b[4] : b \in Bboxes(items_)}) >>

\* [min of the items' starts, max of the items' ends]
EnclosingDatetimes(items_) ==
  << Min({IF IsNone(items_[k].datetime) THEN items_[k].start_datetime ELSE Val(items_[k].datetime)
            : k \in DOMAIN items_}),
     Max({IF IsNone(items_[k].datetime) THEN items_[k].end_datetime ELSE Val(items_[k].datetime)
            : k \in DOMAIN items_}) >>

\* the items in every order
Reorderings(items_) ==
  {[k \in DOMAIN items_ |-> items_[p[k]]] : p \in Permutations(DOMAIN items_)}

\* C32: for any sequence of catalog items (each with a granule), the loop of
\* process_catalog runs to its end and leaves the bbox [min xmin, min ymin,
\* max xmax, max ymax] over the items' bboxes and the datetime range [min of
\* the starts, max of the ends], and the same in whatever order the items come
C32_AccumulatedExtent ==
  MetadataDone /\ AllHaveGranule =>
    /\ Len(granule_urls) = Len(items)
    /\ bbox = EnclosingBbox(items)
    /\ datetimes = EnclosingDatetimes(items)
    /\ \A other \in Reorderings(items) :
         /\ IsNone(process_metadata(other, 1, EmptyMetadata).raised)
         /\ process_metadata(other, 1, EmptyMetadata).bbox = bbox
         /\ process_metadata(other, 1, EmptyMetadata).datetimes = datetimes

\* ------------------------------------------------------------------- C33
\* where each failure of process_catalog is raised: file, line and function
FailureSite(type, msg) ==
  CASE type = "TypeError" /\ msg = "'NoneType' object is not subscriptable"
         -> <<"util.py", 70, "get_bbox">>
    [] type = "RuntimeError" /\ msg = "A NetCDF4 asset was not found in this item"
         -> <<"util.py", 48, "get_granule_url">>
    [] type = "RuntimeError" /\ msg = "Download failed - exit code: 1"
         -> <<"download_worker.py", 61, "multi_core_download">>
    [] type = "TypeError" /\ msg = "merge_netcdf_files() got multiple values for argument 'logger'"
         -> <<"service.py", 135, "process_catalog">>
    [] OTHER -> <<"unknown", 0, "unknown">>

\* the exception carries the category 'podaac/concise' and, in its message,
\* the file, line and function of `site` and the message of `original`
IsConciseExceptionOf(ex, original, site) ==
  /\ ex.category = "podaac/concise"
  /\ ex.message.filename = site[1]
  /\ ex.message.lineno = site[2]
  /\ ex.message.funcname = site[3]
  /\ ex.message.error_msg = original.msg
  /\ ex.original_exception.type = original.type
  /\ ex.original_exception.msg = original.msg

\* the same error as one that was created and never raised
WithoutTraceback(ex) == [ex EXCEPT !.traceback = None]

CountIn(list, x) == Cardinality({k \in DOMAIN list : list[k] = x})

\* how many workers hold the URL between taking it and fetching it
HeldBy(url) == Cardinality({w \in DOMAIN download_processes : download_processes[w].url = Some(url)})

\* multi_core_download has started its workers
DownloadStarted == download_processes # <<>>

\* multi_core_download has returned its list of paths
DownloadReturned ==
  \/ service_pc = "merge"
  \/ /\ service_pc = "raised"
     /\ Val(service_error).message.funcname = "process_catalog"
     /\ Val(service_error).message.lineno = 135

\* multi_core_download has raised
DownloadRaised ==
  /\ service_pc = "raised"
  /\ Val(service_error).message.funcname = "multi_core_download"

\* the path a downloaded URL ends at: the name found in the URL, or the name
\* harmony's download() gave the file
PathOf(url) ==
  IF IsNone(filename_match(url)) THEN download(url)
  ELSE destination_dir \o <<"/">> \o Val(filename_match(url))

\* C40: with any number of download workers, no URL of the list is taken more
\* often than the list names it and, while no worker has failed, none is
\* lost; when multi_core_download returns, every URL was downloaded exactly as
\* often as the list names it and the returned list holds exactly one path per
\* URL; when a worker has exited with a non-zero code multi_core_download does
\* not return a list but raises
C40_EveryUrlDownloadedOnce ==
  DownloadStarted =>
    /\ \A url \in Range(granule_urls) :
         /\ CountIn(url_queue, url) + HeldBy(url) + CountIn(downloads, url)
              <= CountIn(granule_urls, url)
         /\ (\A w \in DOMAIN download_processes : download_processes[w].exitcode \in {None, Some(0)})
              => CountIn(url_queue, url) + HeldBy(url) + CountIn(downloads, url)
                   = CountIn(granule_urls, url)
    /\ Range(downloads) \subseteq Range(granule_urls)
    /\ DownloadReturned =>
         /\ \A w \in DOMAIN download_processes : download_processes[w].exitcode = Some(0)
         /\ \A url \in Range(granule_urls) : CountIn(downloads, url) = CountIn(granule_urls, url)
         /\ Len(path_list) = Len(granule_urls)
         /\ \A path \in Range(path_list) \cup {PathOf(url) : url \in Range(granule_urls)} :
              CountIn(path_list, path)
                = Cardinality({k \in DOMAIN granule_urls : PathOf(granule_urls[k]) = path})
    /\ (\E w \in DOMAIN download_processes : download_processes[w].exitcode \notin {None, Some(0)}) =>
         /\ ~DownloadReturned
         /\ (service_pc = "download_join" /\ FirstNotClean # 0
               /\ download_processes[FirstNotClean].state = "exited")
              => ENABLED <<DownloadJoin>>_vars
         /\ service_pc = "raised" => DownloadRaised

\* three workers have downloaded three URLs and multi_core_download has
\* returned their three paths
C40_Witness ==
  /\ DownloadReturned
  /\ Len(download_processes) = 3
  /\ Len(granule_urls) = 3
  /\ Len(path_list) = 3
  /\ Cardinality(Range(granule_urls)) = 3

\* a worker failed and multi_core_download raised
C40_WitnessFailed ==
  /\ DownloadRaised
  /\ \E w \in DOMAIN download_processes : download_processes[w].exitcode = Some(1)
  /\ \E w \in DOMAIN download_processes : download_processes[w].exitcode = Some(0)

\* ------------------------------------------------------------------- C34
\* the pad widths resize_var computes for variable k of var_info in retained
\* input i: for each axis the resolved target size minus the actual size;
\* nothing for a variable the input lacks
PadWidths(i, k) ==
  LET ds    == nc_Dataset(input_files[i])
      info  == Val(preprocess).var_info[k]
      where == resolve_group(ds, info[1])
  IN  IF ~where.found \/ ~HasVariable(GroupAt(ds, where.group), where.name) THEN <<>>
      ELSE [j \in DOMAIN VariableOf(GroupAt(ds, where.group), where.name).dimensions |->
              LET dim == VariableOf(GroupAt(ds, where.group), where.name).dimensions[j]
                  target == resolve_dim(Val(preprocess).max_dims, info[2].group_path, dim)
              IN  IF IsNone(target) THEN -1
                  ELSE Val(target) - DimSize(ds, where.group, dim)]

\* C34: resize_var never downscales: for every retained input, every variable
\* present in it and every axis, the size resolve_dim finds in max_dims is at
\* least the axis's size in that input, so that no pad width is negative, also
\* when inputs define the same dimension name at different group levels
C34_NeverDownscales ==
  pc = "init" =>
    \A i \in DOMAIN input_files : \A k \in DOMAIN Val(preprocess).var_info :
      \A j \in DOMAIN PadWidths(i, k) : PadWidths(i, k)[j] >= 0

\* ------------------------------------------------------------------- C35
\* the missing_value the test variables carry
TestMissingValue == AttrVal("i4", -7)

\* a stored variable as it is, without its _FillValue, with a missing_value
\* added, and with a missing_value in place of its _FillValue
AttributeVariants(var) ==
  {[var EXCEPT !.attrs = kept \o added] :
     kept \in {var.attrs, Del(var.attrs, <<"_FillValue">>)},
     added \in {<<>>, << << <<"missing_value">>, TestMissingValue>> >>}}

\* the variables a VariableInfo is constructed from: the stored variables of
\* the retained inputs, in every variant, each with the path of its group
ConstructedFrom ==
  IF pc # "init" THEN {}
  ELSE UNION {LET ds == nc_Dataset(input_files[i])
              IN  UNION {{<<var, ds[gv[1]].path>> : var \in AttributeVariants(StoredVar(ds, gv))}
                           : gv \in StoredVars(ds)} :
                i \in DOMAIN input_files}

\* C35: the fill_value of a VariableInfo is the variable's _FillValue when it
\* has one, otherwise its missing_value when it has one, otherwise None
C35_FillValuePrecedence ==
  \A made \in ConstructedFrom :
    LET var  == made[1]
        info == VariableInfo_init(var, made[2])
    IN  /\ ~IsNone(info)
        /\ HasAttr(var, <<"_FillValue">>) =>
             Get(Val(info), "fill_value") = Some(Get(var.attrs, <<"_FillValue">>))
        /\ ~HasAttr(var, <<"_FillValue">>) /\ HasAttr(var, <<"missing_value">>) =>
             Get(Val(info), "fill_value") = Some(TestMissingValue)
        /\ ~HasAttr(var, <<"_FillValue">>) /\ ~HasAttr(var, <<"missing_value">>) =>
             Get(Val(info), "fill_value") = None

\* descriptors were constructed from a variable that has both attributes, from
\* one that has only a missing_value and from one that has neither, and the
\* descriptor preprocessing kept for a stored variable carries its _FillValue
C35_Witness ==
  /\ pc = "init"
  /\ \E made \in ConstructedFrom :
       /\ HasAttr(made[1], <<"_FillValue">>) /\ HasAttr(made[1], <<"missing_value">>)
       /\ Get(made[1].attrs, <<"_FillValue">>) # TestMissingValue
       /\ Get(Val(VariableInfo_init(made[1], made[2])), "fill_value")
            = Some(Get(made[1].attrs, <<"_FillValue">>))
  /\ \E made \in ConstructedFrom :
       /\ ~HasAttr(made[1], <<"_FillValue">>) /\ HasAttr(made[1], <<"missing_value">>)
       /\ Get(Val(VariableInfo_init(made[1], made[2])), "fill_value") = Some(TestMissingValue)
  /\ \E made \in ConstructedFrom :
       /\ ~HasAttr(made[1], <<"_FillValue">>) /\ ~HasAttr(made[1], <<"missing_value">>)
       /\ Get(Val(VariableInfo_init(made[1], made[2])), "fill_value") = None
  /\ \E i \in DOMAIN input_files :
       LET ds == nc_Dataset(input_files[i])
       IN  \E gv \in StoredVars(ds) :
             /\ HasAttr(StoredVar(ds, gv), <<"_FillValue">>)
             /\ Has(Val(preprocess).var_info, StoredVarPath(ds, gv))
             /\ Get(Val(preprocess).var_info, StoredVarPath(ds, gv)).fill_value
                  = Some(Get(StoredVar(ds, gv).attrs, <<"_FillValue">>))

\* ------------------------------------------------------------------- C36
\* the bytes of the segments in the list of <<name, array>> pairs
RECURSIVE SegmentBytes(_)
SegmentBytes(segments) ==
  IF segments = <<>> THEN 0
  ELSE nbytes(Head(segments)[2]) + SegmentBytes(Tail(segments))

\* the byte size of the segments that were created and are not yet unlinked
LinkedBytes == SegmentBytes(shm)

\* C36: in every state of the multi-worker merge the segments that have been
\* created and not yet unlinked hold at most as many bytes as the budget, 95%
\* of the size of the shared memory
C36_LinkedBytesWithinBudget ==
  \A r \in DOMAIN readers : LinkedBytes <= readers[r].max_memory_size

\* ------------------------------------------------------------------- C38
\* the multi-worker merge has ended without an error
MultiMergeCompleted == pc \in {"finalize", "done"} /\ readers # <<>>

\* what holds of the counter and the lock in every state: the counter is not
\* negative, at most one process is inside `with lock:`, a process inside it
\* is at its update of the counter and can always take its next step there,
\* and the counter is 0 once the merge has completed
CounterLockInvariant ==
  /\ memory_limit >= 0
  /\ Cardinality(lock) <= 1
  /\ \A p \in lock :
       /\ Has(pending_update, p)
       /\ pc = "merge_multi" => ENABLED <<CounterRead(p) \/ CounterWrite(p)>>_vars
  /\ MultiMergeCompleted => memory_limit = 0 /\ lock = {} /\ pending_update = <<>>

\* what holds of every step: the counter changes only in the step that ends
\* the `with lock:` of a process that holds the lock, and by that process's
\* amount; while the writer is inside `with lock:` nothing is written to the
\* output and nothing is taken from the output queue; while a reader is
\* inside it that reader takes no file and posts no buffer
CounterLockStep ==
  /\ memory_limit' # memory_limit =>
       \E p \in lock : /\ lock' = lock \ {p}
                       /\ memory_limit' = memory_limit + Get(pending_update, p)
  /\ Writer \in lock =>
       /\ merged_dataset' = merged_dataset
       /\ Len(out_queue') >= Len(out_queue)
  /\ \A r \in lock \ {Writer} :
       /\ readers'[r] = readers[r]
       /\ \A k \in DOMAIN out_queue' : k > Len(out_queue) => out_queue'[k] # Val(readers[r].staged)

\* C38: the shared counter of outstanding bytes is never negative; every
\* update of it, the reader's increment before it posts and the writer's
\* decrement after it has written, happens while the process holds the
\* counter lock, and no process blocks on a queue, sleeps or writes the file
\* while it holds that lock; after a normal completion of the merge the
\* counter is 0
C38_CounterUnderLock == [](CounterLockInvariant) /\ [][CounterLockStep]_vars

\* the run of the multi-worker merge is over: the writer has left its loop
\* and joined the readers, or an error left _run_multi_core
MultiMergeEnded == pc \in {"finalize", "done", "failed"}

\* the writer is in its loop with nothing left to come: every reader has
\* returned, the output queue is empty, no buffer is in the writer's hands
WriterSpins ==
  /\ pc = "merge_multi"
  /\ \A r \in DOMAIN readers : readers[r].exitcode = Some(0)
  /\ out_queue = <<>>
  /\ IsNone(writer_item)
  /\ processed_variables < total_variables

\* how a run of the multi-worker merge ends
MultiMergeEnding ==
  /\ ~WriterSpins
  /\ (pc \in {"finalize", "done"} /\ readers # <<>>) =>
       /\ processed_variables = total_variables
       /\ \A r \in DOMAIN readers : readers[r].state = "exited"
  /\ pc = "failed" => ~IsNone(error)

\* C37: under fair scheduling every multi-worker run of the merge comes to
\* its end: from every state of the writer's loop the run reaches the join
\* of the readers or an error, so the reader and the writer never wait on
\* each other forever; the writer is never left polling an empty queue with
\* every reader returned and writes outstanding; a run that ends without an
\* error has done all len(input_files) * len(var_info) writes and every
\* reader has exited
C37_MergeTerminates ==
  /\ [](MultiMergeEnding)
  /\ (pc = "merge_multi") ~> MultiMergeEnded

\* a multi-worker merge of two files has ended with every write done, on a
\* host whose shared memory makes the reader wait for the writer
C37_Witness ==
  /\ pc = "finalize"
  /\ readers # <<>>
  /\ Len(input_files) = 2
  /\ processed_variables = total_variables
  /\ processed_variables > 2
  /\ \A r \in DOMAIN readers : readers[r].max_memory_size = Round95(9)

\* the workers of the multi-worker preprocessing that returned with a result
Contributors ==
  {w \in DOMAIN pre_workers : pre_workers[w].exitcode = Some(0) /\ ~pre_workers[w].empty}

\* the multi-worker preprocessing between the calls of its processes
PreprocessWorkersInvariant ==
  /\ \A w \in DOMAIN pre_workers : pre_workers[w].empty => pre_workers[w].acc = EmptyAcc
  /\ pre_workers # <<>> => Len(results) = Cardinality(Contributors)
  /\ (pre_workers # <<>> /\ ~IsNone(preprocess)) =>
       /\ \A w \in DOMAIN pre_workers : pre_workers[w].exitcode = Some(0)
       /\ pre_in_queue = <<>>
       /\ opened.preprocess = Range(input_files)
  /\ (\E w \in DOMAIN pre_workers : pre_workers[w].exitcode = Some(1)) =>
       /\ IsNone(preprocess)
       /\ pc \in {"pre_join", "failed"}
       /\ pc = "failed" => error = Some("RuntimeError: Preprocessing failed")
  /\ ( /\ pc = "pre_join"
       /\ \E w \in DOMAIN pre_workers : pre_workers[w].exitcode = Some(1)
       /\ \A w \in DOMAIN pre_workers : pre_workers[w].state = "exited" ) =>
       ENABLED <<PreprocessJoinFailed>>_vars

\* one step of the multi-worker preprocessing
PreprocessWorkersStep ==
  pc = "pre_join" =>
    /\ \/ /\ pre_in_queue' = pre_in_queue
          /\ \A w \in DOMAIN pre_workers :
               /\ pre_workers'[w].acc = pre_workers[w].acc
               /\ pre_workers'[w].empty = pre_workers[w].empty
       \/ /\ pre_in_queue # <<>>
          /\ pre_in_queue' = Tail(pre_in_queue)
          /\ \E w \in DOMAIN pre_workers :
               /\ pre_workers[w].state = "running"
               /\ pre_workers'[w].acc = visit_file(Head(pre_in_queue), pre_workers[w].acc)
               /\ ~pre_workers'[w].empty
               /\ \A v \in DOMAIN pre_workers \ {w} : pre_workers'[v] = pre_workers[v]
    /\ \A w \in DOMAIN pre_workers :
         (pre_workers[w].state = "running" /\ pre_workers'[w].state = "exited") =>
           IF pre_workers[w].empty \/ pre_workers'[w].exitcode # Some(0)
           THEN results' = results
           ELSE results' = Append(results, [pre_workers[w].acc EXCEPT !.group_list = sort(@)])
    /\ results' # results =>
         \E w \in DOMAIN pre_workers :
           pre_workers[w].state = "running" /\ pre_workers'[w].state = "exited"
    /\ (pc' = "init" \/ preprocess' # preprocess) =>
         /\ pre_in_queue = <<>>
         /\ \A w \in DOMAIN pre_workers : pre_workers[w].state = "exited"

\* C39: in the multi-worker preprocessing an entry leaves the input queue
\* only when one worker takes it, and that worker alone visits it; when the
\* results are merged the queue is empty and every retained input has been
\* visited; a worker that took nothing holds no data and appends no result;
\* the results are merged only once every worker has exited; and once a
\* worker has exited with a non-zero code no schema is returned and the
\* coordinator raises `Preprocessing failed`
C39_PreprocessWorkers == [](PreprocessWorkersInvariant) /\ [][PreprocessWorkersStep]_vars

\* three workers shared two inputs: two of them visited one file each, the
\* third found the queue empty, and the results have been merged
C39_Witness ==
  /\ pc = "init"
  /\ Len(pre_workers) = 3
  /\ Len(input_files) = 2
  /\ Len(results) = 2
  /\ \E w \in DOMAIN pre_workers : pre_workers[w].empty /\ pre_workers[w].exitcode = Some(0)

\* a worker exited with a non-zero code, another returned, and the coordinator
\* raised
C39_WitnessFailed ==
  /\ pc = "failed"
  /\ error = Some("RuntimeError: Preprocessing failed")
  /\ \E w \in DOMAIN pre_workers : pre_workers[w].exitcode = Some(1)
  /\ \E w \in DOMAIN pre_workers : pre_workers[w].exitcode = Some(0)

====
